---- MODULE Spec2Model ----
(***************************************************************************)
(* Verification model of the sharded-training core: the DTensor sharding   *)
(* propagator (torch/distributed/_tensor/sharding_prop.py), the placement  *)
(* model's local-shape/offset and split/replicate functions, the FSDP      *)
(* runtime state machine (torch/distributed/fsdp/                          *)
(* fully_sharded_data_parallel.py) and the parameter registration of       *)
(* fully_shard.                                                            *)
(*                                                                         *)
(* The module holds several specifications over one set of variables; each *)
(* specification drives one subsystem and leaves the others at their       *)
(* initial value.                                                          *)
(***************************************************************************)
EXTENDS Integers, Sequences, FiniteSets, TLC

VARIABLES
    \* ---- ShardingPropagator (sharding_prop.py) ----
    op_strategy_funcs,  \* self.op_strategy_funcs: operator -> strategy function
    op_to_rules,        \* self.op_to_rules: operator -> rule function
    cache,              \* the lru_cache of propagate_op_sharding: schema -> OutputSharding
    log,                \* call-count instrumentation: one entry per propagate call
    nregister,          \* number of register_* calls made so far
    \* ---- placement model (compute_local_shape_and_global_offset) ----
    global_shape,       \* the global tensor shape passed by every rank
    mesh_shape,         \* the device mesh's shape
    placements,         \* one placement per mesh dimension
    local_out,          \* mesh coordinate -> what the call returned or raised there
    \* ---- placement model (_split_tensor / _to_replicate_tensor) ----
    x_full,             \* the tensor x that is sharded
    split_mesh,         \* the 2-D device mesh's shape
    applied,            \* the placements applied so far, one per mesh dimension
    shard_x,            \* mesh coordinate -> the rank's local tensor
    logical,            \* per sharded mesh dimension, the tensors before sharding on it
    undone,             \* number of mesh dimensions replicated back
    \* ---- FSDP configuration (constructor arguments; fixed after construction) ----
    sharding_strategy,  \* module -> FULL_SHARD | SHARD_GRAD_OP | NO_SHARD
    cpu_offload,        \* self.cpu_offload.offload_params of the tree
    requires_grad,      \* module -> flat_param.requires_grad
    \* ---- FSDP runtime state (fully_sharded_data_parallel.py) ----
    _is_root,           \* module -> "None" | "True" | "False"
    training_state,     \* module -> TrainingState
    handle_training_state, \* module -> its handle's _training_state
    _sync_gradients,    \* module -> BOOLEAN
    flat_param,         \* module -> what flat_param.data points at, and whether
                        \* the padded unsharded buffer is allocated
    grad,               \* module -> flat_param.grad and flat_param._saved_grad_shard
    _post_backward_hook_state, \* module -> the post-backward hook is registered
    _post_backward_called,     \* module -> flat_param._post_backward_called
    _post_backward_callback_queued, \* module -> BOOLEAN
    _ran_pre_backward_hook,    \* module -> BOOLEAN
    _handles_prefetched,       \* module -> the handle keys in its _handles_prefetched
    stack,              \* the control thread's open calls and contexts
    graph,              \* the autograd graph built by the last outermost forward
    bw,                 \* the backward pass in progress, if any
    post_backward_stream, \* reduce-scatters issued and not yet completed, in issue order
    nforward,           \* outermost forward calls made so far (the microbatch number)
    ncalls,             \* other API calls made so far
    rs_log,             \* every reduce-scatter issued: unit, microbatch, what it reduced
    mb_log,             \* per microbatch: each unit's sync flag, and whose hook fired
    rs_unfinalized,     \* module -> reduce-scatters issued since its last finalisation
    last,               \* the last call that completed, and how
    \* ---- fully_shard (torch.distributed._composable.fsdp) ----
    param_groups,       \* the modules fully_shard is applied to, in call order
    fsdp2_reshard_after_forward, \* the reshard_after_forward argument: True, False or 2
    ref_model,          \* module -> the parameter's value before fully_shard
    fsdp_param,         \* module -> its parameter's sharded state and tensors
    schedule,           \* the hooks the running forward or backward has yet to call
    event,              \* the last call that completed, and the units resharded since
    \* ---- helper methods of the propagator called on their own ----
    fn_call,            \* the method called and its arguments
    fn_result,          \* what the call returned or raised, once it was made
    \* ---- fully_shard (torch.distributed._composable.fully_shard) ----
    _module_state,      \* module -> the module whose call's state is inserted on it
    _fully_sharded_module_to_handles, \* module -> the modules its handle flattened
    _forward_hooks,     \* module -> the forward and state-dict hooks registered on it
    fully_shard_last,   \* the last fully_shard call: module, policy, exception
    \* ---- EtcdStore.add (etcd_rendezvous.py) ----
    store_initial,      \* the etcd node of the key before the add calls
    store_node,         \* the etcd node of the key: absent, or its value
    add_num,            \* caller -> the num of its add call
    add_pc,             \* caller -> where its add call stands
    add_node,           \* caller -> the node value its last get returned
    add_returned,       \* caller -> what its write stored and what add returned
    \* ---- EtcdRendezvous (etcd_rendezvous.py) ----
    active_version,     \* the etcd key /rdzv/active_version: absent, or value and TTL
    version_counter,    \* the etcd key /rdzv/version_counter
    keep_alive_keys,    \* ranks whose lease key /rdzv/v_N/rank_R exists (N the active version)
    rdzv_pc,            \* worker -> where its rendezvous_barrier or set_closed call stands
    rdzv_local,         \* worker -> active_version.value as last read, expected_version, this_rank
    rdzv_result,        \* worker -> how its last call ended
    rdzv_calls,         \* rendezvous_barrier and set_closed calls begun so far
    rdzv_returned,      \* what every rendezvous_barrier call that returned has returned
    \* ---- forward pass of a sequence of FSDP units: host and device streams ----
    forward_prefetch,   \* whether explicit forward prefetching is enabled
    ov_iter,            \* the forward pass the host is in, counted from 1
    ov_unit,            \* the sharding unit the host is at
    ov_phase,           \* what the host does next for that unit
    unshard_stream,     \* the all-gathers issued and not completed, in issue order
    compute_stream,     \* what was put on the compute stream and has not completed
    ov_running,         \* the unit whose forward compute is running on the device
    ov_log,             \* per forward pass and unit, what has happened so far
    \* ---- set_state_dict_type and the state_dict_type context manager ----
    _state_dict_type,   \* each FSDP module's _state_dict_type
    _state_dict_config, \* each FSDP module's _state_dict_config
    sd_ctx,             \* the state_dict_type context that is open, if any
    sd_last             \* the last set_state_dict_type or state_dict_type step and its outcome

propVars == <<op_strategy_funcs, op_to_rules, cache, log, nregister>>
placeVars == <<global_shape, mesh_shape, placements, local_out>>

splitVars == <<x_full, split_mesh, applied, shard_x, logical, undone>>

fsdpVars ==
    <<sharding_strategy, cpu_offload, requires_grad, _is_root, training_state,
      handle_training_state, _sync_gradients, flat_param, grad,
      _post_backward_hook_state, _post_backward_called,
      _post_backward_callback_queued, _ran_pre_backward_hook,
      _handles_prefetched, stack, graph, bw, post_backward_stream, nforward,
      ncalls, rs_log, mb_log, rs_unfinalized, last>>

fsdp2Vars ==
    <<param_groups, fsdp2_reshard_after_forward, ref_model, fsdp_param, schedule,
      event>>

callVars == <<fn_call, fn_result>>

composableVars ==
    <<_module_state, _fully_sharded_module_to_handles, _forward_hooks,
      fully_shard_last>>

storeVars ==
    <<store_initial, store_node, add_num, add_pc, add_node, add_returned>>

rdzvVars ==
    <<active_version, version_counter, keep_alive_keys, rdzv_pc, rdzv_local,
      rdzv_result, rdzv_calls, rdzv_returned>>

overlapVars ==
    <<forward_prefetch, ov_iter, ov_unit, ov_phase, unshard_stream,
      compute_stream, ov_running, ov_log>>

stateDictVars == <<_state_dict_type, _state_dict_config, sd_ctx, sd_last>>

vars ==
    <<propVars, placeVars, splitVars, fsdpVars, fsdp2Vars, callVars,
      composableVars, storeVars, rdzvVars,
      overlapVars,
      stateDictVars>>

\* The variables of the other subsystems, left alone by a subsystem's actions
restProp ==
    <<placeVars, splitVars, fsdpVars, fsdp2Vars, callVars, composableVars,
      storeVars, rdzvVars,
      overlapVars,
      stateDictVars>>
restPlace ==
    <<propVars, splitVars, fsdpVars, fsdp2Vars, callVars, composableVars,
      storeVars, rdzvVars,
      overlapVars,
      stateDictVars>>
restSplit ==
    <<propVars, placeVars, fsdpVars, fsdp2Vars, callVars, composableVars,
      storeVars, rdzvVars,
      overlapVars,
      stateDictVars>>
restFSDP ==
    <<propVars, placeVars, splitVars, fsdp2Vars, callVars, composableVars,
      storeVars, rdzvVars,
      overlapVars,
      stateDictVars>>
restFSDP2 ==
    <<propVars, placeVars, splitVars, fsdpVars, callVars, composableVars,
      storeVars, rdzvVars,
      overlapVars,
      stateDictVars>>
restCall ==
    <<propVars, placeVars, splitVars, fsdpVars, fsdp2Vars, composableVars,
      storeVars, rdzvVars,
      overlapVars,
      stateDictVars>>
restComposable ==
    <<propVars, placeVars, splitVars, fsdpVars, fsdp2Vars, callVars,
      storeVars, rdzvVars,
      overlapVars,
      stateDictVars>>
restStore ==
    <<propVars, placeVars, splitVars, fsdpVars, fsdp2Vars, callVars,
      composableVars, rdzvVars,
      overlapVars,
      stateDictVars>>
restRdzv ==
    <<propVars, placeVars, splitVars, fsdpVars, fsdp2Vars, callVars,
      composableVars, storeVars,
      overlapVars,
      stateDictVars>>
restOverlap ==
    <<propVars, placeVars, splitVars, fsdpVars,
      fsdp2Vars, callVars, composableVars, storeVars,
      rdzvVars,
      stateDictVars>>
restStateDict ==
    <<propVars, placeVars, splitVars, fsdpVars,
      fsdp2Vars, callVars, composableVars, storeVars,
      rdzvVars, overlapVars>>

(***************************************************************************)
(* Generic helpers                                                         *)
(***************************************************************************)
None == "None"         \* Python's None where the other values are strings

\* Optional values of other types: None or a value.
NoneOpt == [none |-> TRUE]
Some(v) == [none |-> FALSE, val |-> v]

RECURSIVE SumSeq(_)
SumSeq(s) == IF s = <<>> THEN 0 ELSE Head(s) + SumSeq(Tail(s))

RECURSIVE Chain(_)
\* itertools.chain.from_iterable over a sequence of sequences
Chain(ss) == IF ss = <<>> THEN <<>> ELSE Head(ss) \o Chain(Tail(ss))

MinOf(s) == CHOOSE m \in {s[i] : i \in 1..Len(s)} : \A i \in 1..Len(s) : m <= s[i]

\* list.index(x): the first position holding x
IndexOf(s, x) == CHOOSE i \in 1..Len(s) : s[i] = x /\ \A j \in 1..(i - 1) : s[j] # x

(***************************************************************************)
(* ShardingPropagator: the environment the propagator is driven with        *)
(***************************************************************************)
MaxPropagate == 2       \* propagate calls per run
MaxRegister == 2        \* register_* calls per run

\* Placements over a 1-D mesh: Replicate and Shard(0).
PlacementKinds == {"R", "S0"}

\* Operators: aten.equal is in skip_prop_list; add returns one tensor; split
\* returns a tuple of two tensors of different shapes.
Ops == {"equal", "add", "split"}

\* The argument placements the propagator is driven with: two tensor arguments.
ArgPairs == {<<"R", "R">>, <<"S0", "R">>}

\* An OpSchema: operator, the placements of its two tensor arguments, and
\* the has_symints flag.  Symbolic sizes are tried on add with one argument
\* pair, and equal (which is skipped whatever its arguments) with one pair.
Schemas == {s \in [op : Ops, args : ArgPairs, has_symints : BOOLEAN] :
              /\ s.has_symints => (s.op = "add" /\ s.args = <<"S0", "R">>)
              /\ s.op = "equal" => s.args = <<"R", "R">>}

StrategyIds == {"follow", "cost", "tuple"}
RuleIds == {"suggest", "flagged", "fail_reason", "fail_silent", "raise_ni", "raise_other"}

\* skip_prop_list of propagate_op_sharding_non_cached
skip_prop_list == {"equal"}

NumReturns(op) == IF op = "split" THEN 2 ELSE 1

return_type_tuple_tensors(op) == op = "split"

\* Cost of redistributing one argument from placement a to placement q
\* (an all-gather costs more than a local chunk).
RedistCost(a, q) ==
    IF a = q THEN 0
    ELSE IF a = "S0" THEN 2 ELSE 1

PlacementStrategy(out, ins, cost) ==
    [output_spec |-> out, input_specs |-> ins, redistribute_cost |-> cost]

\* The registered strategy functions, as the data they return for a schema.
\*   follow:  one candidate, the first argument's placement, input_specs None
\*   cost:    three candidates with per-argument redistribute costs; the
\*            second and third expect the same (replicated) inputs, so their
\*            costs always tie
\*   tuple:   a TupleStrategy with one single-candidate child per return
StrategyFunc(id, schema) ==
    LET a == schema.args
        cand(out, q) == PlacementStrategy(out, Some(<<q, q>>),
                          Some(<< <<RedistCost(a[1], q)>>, <<RedistCost(a[2], q)>> >>))
    IN  CASE id = "follow" ->
               [kind |-> "OpStrategy",
                strategies |-> <<PlacementStrategy(a[1], NoneOpt, NoneOpt)>>]
          [] id = "cost" ->
               [kind |-> "OpStrategy",
                strategies |-> <<cand("S0", "S0"), cand("S0", "R"), cand("R", "R")>>]
          [] OTHER ->
               [kind |-> "TupleStrategy",
                childs |-> [i \in 1..NumReturns(schema.op) |->
                              [kind |-> "OpStrategy",
                               strategies |-> <<PlacementStrategy(a[1], NoneOpt, NoneOpt)>>]]]

OutputShardingRec(spec, sugg, redist, reason) ==
    [output_spec |-> spec, schema_suggestions |-> sugg,
     needs_redistribute |-> redist, failed_reason |-> reason]

\* A DTensorSpec object: placements plus the tensor_meta attached to it.
DTensorSpec(p) == [placements |-> p, tensor_meta |-> None]

\* An output spec is None, one DTensorSpec object, or a tuple of references
\* into a heap of DTensorSpec objects (two entries of a tuple may be the same
\* object).
NoSpec == [kind |-> "none", objs |-> <<>>, refs |-> <<>>]
SingleSpec(p) == [kind |-> "single", objs |-> <<DTensorSpec(p)>>, refs |-> <<1>>]
TupleSpec(objs, refs) == [kind |-> "tuple", objs |-> objs, refs |-> refs]

\* The registered rule functions, as the result they give for a schema:
\* [exc, out].
\*   suggest:      an output spec for uniform arguments, else two suggested
\*                 schemas (every argument as the first, every argument as
\*                 the second)
\*   flagged:      an output spec with needs_redistribute already set
\*   fail_reason:  nothing but a failed_reason
\*   fail_silent:  nothing at all
\*   raise_ni, raise_other: the rule raises
RuleFunc(id, schema) ==
    LET a == schema.args
        uniform == a[1] = a[2]
        spec(q) == IF return_type_tuple_tensors(schema.op)
                   THEN TupleSpec([i \in 1..NumReturns(schema.op) |-> DTensorSpec(q)],
                                  [i \in 1..NumReturns(schema.op) |-> i])
                   ELSE SingleSpec(q)
        nothing == OutputShardingRec(NoSpec, NoneOpt, FALSE, None)
    IN  CASE id = "suggest" ->
               [exc |-> None,
                out |-> IF uniform
                        THEN OutputShardingRec(spec(a[1]), NoneOpt, FALSE, None)
                        ELSE OutputShardingRec(NoSpec,
                               Some(<<[op |-> schema.op, args |-> <<a[1], a[1]>>],
                                      [op |-> schema.op, args |-> <<a[2], a[2]>>]>>),
                               FALSE, None)]
          [] id = "flagged" ->
               [exc |-> None, out |-> OutputShardingRec(spec(a[1]), NoneOpt, TRUE, None)]
          [] id = "fail_reason" ->
               [exc |-> None, out |-> OutputShardingRec(NoSpec, NoneOpt, FALSE, "reason")]
          [] id = "fail_silent" -> [exc |-> None, out |-> nothing]
          [] id = "raise_ni" -> [exc |-> "NotImplementedError", out |-> nothing]
          [] OTHER -> [exc |-> "Exception", out |-> nothing]

(***************************************************************************)
(* ShardingPropagator: the code                                            *)
(***************************************************************************)
\* _propagate_tensor_meta: the metadata of the operator's traced (fake)
\* output: one TensorMeta, a tuple of them, or None for a non-tensor output.
_propagate_tensor_meta(op_schema) ==
    CASE op_schema.op = "add" -> [kind |-> "single", metas |-> <<"meta_add">>]
      [] op_schema.op = "split" ->
           [kind |-> "tuple", metas |-> <<"meta_split_0", "meta_split_1">>]
      [] OTHER -> [kind |-> "none", metas |-> <<>>]

RECURSIVE WrapLoop(_, _, _, _)
\* for i, spec in enumerate(output_spec): spec.tensor_meta = output_tensor_meta[i]
\* The assignment is made on the object the i-th entry refers to.
WrapLoop(objs, refs, metas, i) ==
    IF i > Len(refs) THEN [exc |-> None, objs |-> objs]
    ELSE IF i > Len(metas) THEN [exc |-> "IndexError", objs |-> objs]
    ELSE WrapLoop([objs EXCEPT ![refs[i]].tensor_meta = metas[i]], refs, metas, i + 1)

\* _wrap_output_spec_tensor_meta: [exc, spec], spec being output_spec after
\* the in-place assignments.
_wrap_output_spec_tensor_meta(output_spec, output_tensor_meta) ==
    CASE output_spec.kind = "single" ->
           IF output_tensor_meta.kind # "single"
           THEN [exc |-> "ValueError", spec |-> output_spec]
           ELSE [exc |-> None,
                 spec |-> [output_spec EXCEPT
                             !.objs[1].tensor_meta = output_tensor_meta.metas[1]]]
      [] output_spec.kind = "tuple" ->
           \* isinstance(meta, (tuple, list) or len(...) != len(...)): the second
           \* argument evaluates to (tuple, list), so the lengths are not compared
           IF output_tensor_meta.kind # "tuple"
           THEN [exc |-> "ValueError", spec |-> output_spec]
           ELSE LET r == WrapLoop(output_spec.objs, output_spec.refs,
                                  output_tensor_meta.metas, 1)
                IN  [exc |-> r.exc, spec |-> [output_spec EXCEPT !.objs = r.objs]]
      [] OTHER -> [exc |-> None, spec |-> output_spec]

\* the first candidate, whatever the costs
_select_strategy_first(strategy) == [exc |-> None, val |-> strategy.strategies[1]]

\* _select_strategy: [exc, val]
_select_strategy(strategy) ==
    IF Len(strategy.strategies) = 1
    THEN [exc |-> None, val |-> strategy.strategies[1]]
    ELSE IF \E i \in 1..Len(strategy.strategies) :
                strategy.strategies[i].redistribute_cost.none
    THEN [exc |-> "AssertionError", val |-> strategy.strategies[1]]
    ELSE LET strategy_costs ==
                 [i \in 1..Len(strategy.strategies) |->
                    SumSeq(Chain(strategy.strategies[i].redistribute_cost.val))]
         IN  [exc |-> None,
              val |-> strategy.strategies[IndexOf(strategy_costs, MinOf(strategy_costs))]]

\* The value standing for "no OutputSharding" where a call raised.
NoOutput == OutputShardingRec(NoSpec, NoneOpt, FALSE, None)

Raised(e, n) == [exc |-> e, out |-> NoOutput, invoked |-> n]
Returned(o, n) == [exc |-> None, out |-> o, invoked |-> n]

\* every argument expected in the placement of the strategy's output
desired_spec_output(output_strategy, idx) == output_strategy.output_spec

\* The expected spec of argument idx (lines 228-232): the strategy's output
\* spec when it declares no input specs.
desired_spec(output_strategy, idx) ==
    IF output_strategy.input_specs.none
    THEN output_strategy.output_spec
    ELSE output_strategy.input_specs.val[idx]

\* propagate_op_sharding_non_cached, the op_strategy_funcs branch with a
\* single OpStrategy (lines 221-261 and 310-314).
OpStrategyPath(op_schema, op_strategy, out_tensor_meta) ==
    LET sel == _select_strategy(op_strategy)
        output_strategy == sel.val
        expected_input_specs ==
            [idx \in 1..Len(op_schema.args) |-> desired_spec(output_strategy, idx)]
        needs_redistribute ==
            \E idx \in 1..Len(op_schema.args) :
                op_schema.args[idx] # desired_spec(output_strategy, idx)
        suggestion_schema ==
            IF needs_redistribute
            THEN Some(<<[op |-> op_schema.op, args |-> expected_input_specs]>>)
            ELSE NoneOpt
        \* tuple([output_strategy.output_spec for _ in range(len(returns))]):
        \* every entry is the same DTensorSpec object
        output_spec ==
            IF return_type_tuple_tensors(op_schema.op)
            THEN TupleSpec(<<DTensorSpec(output_strategy.output_spec)>>,
                           [i \in 1..NumReturns(op_schema.op) |-> 1])
            ELSE SingleSpec(output_strategy.output_spec)
        w == _wrap_output_spec_tensor_meta(output_spec, out_tensor_meta)
    IN  IF sel.exc # None THEN Raised(sel.exc, 1)
        ELSE IF w.exc # None THEN Raised(w.exc, 1)
        ELSE Returned(OutputShardingRec(w.spec, suggestion_schema,
                                        needs_redistribute, None), 1)

\* The op_strategy_funcs branch with a TupleStrategy (lines 262-306, 310-314).
\* Every argument of the schemas modelled here is a DTensorSpec, so the
\* expected input spec is out_spec_list[0] (lines 286-290).
TupleStrategyPath(op_schema, op_strategy, out_tensor_meta) ==
    LET sels == [i \in 1..Len(op_strategy.childs) |->
                   _select_strategy(op_strategy.childs[i])]
        out_spec_list == [i \in 1..Len(sels) |-> sels[i].val.output_spec]
        needs_redistribute ==
            \E idx \in 1..Len(op_schema.args) : op_schema.args[idx] # out_spec_list[1]
        suggestion_args == [idx \in 1..Len(op_schema.args) |-> out_spec_list[1]]
        suggestion_schema ==
            IF needs_redistribute
            THEN Some(<<[op |-> op_schema.op, args |-> suggestion_args]>>)
            ELSE NoneOpt
        output_spec ==
            IF out_tensor_meta.kind # "none"
            THEN TupleSpec([i \in 1..Len(out_spec_list) |-> DTensorSpec(out_spec_list[i])],
                           [i \in 1..Len(out_spec_list) |-> i])
            ELSE NoSpec
        w == _wrap_output_spec_tensor_meta(output_spec, out_tensor_meta)
    IN  IF \E i \in 1..Len(sels) : sels[i].exc # None
        THEN Raised((sels[CHOOSE i \in 1..Len(sels) : sels[i].exc # None]).exc, 1)
        ELSE IF w.exc # None THEN Raised(w.exc, 1)
        ELSE Returned(OutputShardingRec(w.spec, suggestion_schema,
                                        needs_redistribute, None), 1)

\* the last suggestion picked
suggested_input_schema_last(output_sharding) ==
    output_sharding.schema_suggestions.val[Len(output_sharding.schema_suggestions.val)]

\* The suggestion the rule is run again with (line 346): the first.
suggested_input_schema(output_sharding) == output_sharding.schema_suggestions.val[1]

\* The op_to_rules branch (lines 315-361).
RulePath(op_schema, rule, out_tensor_meta) ==
    LET r1 == RuleFunc(rule, op_schema)
        output_sharding == r1.out
        propagation_res == RuleFunc(rule, suggested_input_schema(output_sharding))
        rerun == /\ output_sharding.output_spec.kind = "none"
                 /\ ~output_sharding.schema_suggestions.none
        final == IF rerun
                 THEN [output_sharding EXCEPT
                         !.output_spec = propagation_res.out.output_spec,
                         !.needs_redistribute = TRUE]
                 ELSE output_sharding
        w == _wrap_output_spec_tensor_meta(final.output_spec, out_tensor_meta)
    IN  IF r1.exc = "NotImplementedError" THEN Raised("NotImplementedError", 1)
        ELSE IF r1.exc # None THEN Raised("RuntimeError", 1)
        ELSE IF /\ output_sharding.output_spec.kind = "none"
                /\ output_sharding.schema_suggestions.none
                /\ output_sharding.failed_reason # None
        THEN Raised("RuntimeError", 1)
        ELSE IF rerun /\ propagation_res.exc # None
        THEN Raised(propagation_res.exc, 2)
        ELSE IF w.exc # None THEN Raised(w.exc, IF rerun THEN 2 ELSE 1)
        ELSE Returned([final EXCEPT !.output_spec = w.spec], IF rerun THEN 2 ELSE 1)

\* an operator without a registration answered with an empty OutputSharding
unregistered_op_returns(op_schema) == Returned(NoOutput, 0)

\* The last branch (lines 362-365): neither a strategy nor a rule is
\* registered for the operator.
unregistered_op(op_schema) == Raised("NotImplementedError", 0)

\* propagate_op_sharding_non_cached: [exc, out, invoked], invoked counting
\* the calls of the registered strategy or rule function.
propagate_op_sharding_non_cached(op_schema, strategy_funcs, rules) ==
    IF op_schema.op \in skip_prop_list
    THEN Returned(OutputShardingRec(NoSpec,
                    Some(<<[op |-> op_schema.op, args |-> op_schema.args]>>),
                    FALSE, None), 0)
    ELSE LET out_tensor_meta == _propagate_tensor_meta(op_schema)
         IN  IF op_schema.op \in DOMAIN strategy_funcs
             THEN LET op_strategy == StrategyFunc(strategy_funcs[op_schema.op], op_schema)
                  IN  IF op_strategy.kind = "OpStrategy"
                      THEN OpStrategyPath(op_schema, op_strategy, out_tensor_meta)
                      ELSE TupleStrategyPath(op_schema, op_strategy, out_tensor_meta)
             ELSE IF op_schema.op \in DOMAIN rules
             THEN RulePath(op_schema, rules[op_schema.op], out_tensor_meta)
             ELSE unregistered_op(op_schema)

(***************************************************************************)
(* ShardingPropagator: state machine                                       *)
(***************************************************************************)
EmptyMap == [x \in {} |-> None]

\* __init__: empty registries and an empty lru_cache.
InitProp ==
    /\ op_strategy_funcs = EmptyMap
    /\ op_to_rules = EmptyMap
    /\ cache = EmptyMap
    /\ log = <<>>
    /\ nregister = 0

\* a registration that also empties the lru_cache
register_sharding_prop_rule_clears(op, rule) ==
    /\ nregister < MaxRegister
    /\ op_to_rules' = [o \in DOMAIN op_to_rules \cup {op} |->
                          IF o = op THEN rule ELSE op_to_rules[o]]
    /\ nregister' = nregister + 1
    /\ cache' = EmptyMap
    /\ UNCHANGED <<op_strategy_funcs, log>>
    /\ UNCHANGED restProp

\* register_sharding_prop_rule(op_overload, rule_func)
register_sharding_prop_rule(op, rule) ==
    /\ nregister < MaxRegister
    /\ op_to_rules' = [o \in DOMAIN op_to_rules \cup {op} |->
                          IF o = op THEN rule ELSE op_to_rules[o]]
    /\ nregister' = nregister + 1
    /\ UNCHANGED <<op_strategy_funcs, cache, log>>
    /\ UNCHANGED restProp

\* register_op_strategy(op_overload, strategy_func)
register_op_strategy(op, strategy) ==
    /\ nregister < MaxRegister
    /\ op_strategy_funcs' = [o \in DOMAIN op_strategy_funcs \cup {op} |->
                                IF o = op THEN strategy ELSE op_strategy_funcs[o]]
    /\ nregister' = nregister + 1
    /\ UNCHANGED <<op_to_rules, cache, log>>
    /\ UNCHANGED restProp

\* Instrumentation: the function a propagate call on op dispatches to under
\* the registries as they are at the call.
Registered(op) ==
    IF op \in DOMAIN op_strategy_funcs
    THEN [kind |-> "strategy", id |-> op_strategy_funcs[op]]
    ELSE IF op \in DOMAIN op_to_rules
    THEN [kind |-> "rule", id |-> op_to_rules[op]]
    ELSE [kind |-> "none", id |-> None]

cache_hit_never(schema, c) == FALSE

\* Whether propagate is answered from the lru_cache (lines 157-160): the
\* cached path is taken without symints, and hits when the key is stored.
cache_hit(schema, c) == ~schema.has_symints /\ schema \in DOMAIN c

\* propagate(op_info): the lru_cache stores a result only when the wrapped
\* call returns; op_info.output_sharding is assigned only when no exception
\* passes through.
propagate(schema) ==
    /\ Len(log) < MaxPropagate
    /\ LET hit == cache_hit(schema, cache)
           res == IF hit THEN Returned(cache[schema], 0)
                  ELSE propagate_op_sharding_non_cached(schema, op_strategy_funcs,
                                                        op_to_rules)
       IN  /\ cache' = IF ~schema.has_symints /\ ~hit /\ res.exc = None
                        THEN [k \in DOMAIN cache \cup {schema} |->
                                IF k = schema THEN res.out ELSE cache[k]]
                        ELSE cache
           /\ log' = Append(log, [schema |-> schema, invoked |-> res.invoked,
                                   exc |-> res.exc, output_sharding |-> res.out,
                                   hit |-> hit, func |-> Registered(schema.op),
                                   nreg |-> nregister])
    /\ UNCHANGED <<op_strategy_funcs, op_to_rules, nregister>>
    /\ UNCHANGED restProp

NextProp ==
    \/ \E rule \in RuleIds : register_sharding_prop_rule("add", rule)
    \/ \E op \in Ops \ skip_prop_list, strategy \in StrategyIds :
          register_op_strategy(op, strategy)
    \/ \E schema \in Schemas : propagate(schema)

IdleProp ==
    /\ op_strategy_funcs = EmptyMap
    /\ op_to_rules = EmptyMap
    /\ cache = EmptyMap
    /\ log = <<>>
    /\ nregister = 0

(***************************************************************************)
(* Placement model: local shape and global offset of a rank's shard        *)
(* (torch/distributed/_tensor/_utils.py, placement_types.py)               *)
(***************************************************************************)
MaxDimSize == 3        \* tensor dimension sizes range over 0..MaxDimSize
MaxMeshDimSize == 2    \* mesh dimension sizes range over 1..MaxMeshDimSize
MaxMeshNdim == 4       \* longest placement list of the strided-order runs
MaxRanks == 2          \* most ranks of a mesh of the strided-order runs
MaxRanks2D == 4        \* most ranks of a 1-D or 2-D mesh

\* split_factor=tp_size of the FSDP+TP placements
tp_size == 2

\* Placements.  _StridedShard is a subclass of Shard.
Replicate == [kind |-> "Replicate", dim |-> 0, split_factor |-> 1]
Shard(d) == [kind |-> "Shard", dim |-> d, split_factor |-> 1]
_StridedShard(d, sf) == [kind |-> "_StridedShard", dim |-> d, split_factor |-> sf]

is_shard(p) == p.kind \in {"Shard", "_StridedShard"}
is_strided_shard(p) == p.kind = "_StridedShard"

TensorNdim == 2
TensorDims == 0..(TensorNdim - 1)

PlainPlacements == {Replicate} \cup {Shard(d) : d \in TensorDims}
AllPlacements == PlainPlacements \cup {_StridedShard(d, tp_size) : d \in TensorDims}

RECURSIVE Product(_)
Product(s) == IF s = <<>> THEN 1 ELSE Head(s) * Product(Tail(s))

\* mesh.get_coordinate() of every rank of the mesh
RECURSIVE AllCoords(_)
AllCoords(mesh) ==
    IF mesh = <<>> THEN {<<>>}
    ELSE {<<h>> \o t : h \in 0..(Head(mesh) - 1), t \in AllCoords(Tail(mesh))}

\* every rank gets the rounded-down size
_local_shard_size_floor(s, n, c) == s \div n

\* Size of the shard of coordinate c when a dimension of size s is divided
\* over n ranks: the remainder goes to the lowest coordinates.
_local_shard_size(s, n, c) ==
    IF c < s % n THEN (s + n - 1) \div n ELSE s \div n

_local_shard_offset_floor(s, n, c) == c * (s \div n)

\* Start of the shard of coordinate c: the shard sizes of the lower
\* coordinates.
_local_shard_offset(s, n, c) ==
    SumSeq([k \in 1..c |-> _local_shard_size(s, n, k - 1)])

RECURSIVE ShardPass(_, _, _, _, _, _)
\* The loop over the mesh dimensions in order: a Shard/_StridedShard on
\* tensor dimension d divides the current size along d and accumulates the
\* start offset; Replicate leaves both unchanged.
ShardPass(local_shape, global_offset, mesh, pls, my_coordinate, idx) ==
    IF idx > Len(pls)
    THEN [local_shape |-> local_shape, global_offset |-> global_offset]
    ELSE IF is_shard(pls[idx])
    THEN LET d == pls[idx].dim + 1
             size == _local_shard_size(local_shape[d], mesh[idx], my_coordinate[idx])
             off == _local_shard_offset(local_shape[d], mesh[idx], my_coordinate[idx])
         IN  ShardPass([local_shape EXCEPT ![d] = size],
                       [global_offset EXCEPT ![d] = @ + off],
                       mesh, pls, my_coordinate, idx + 1)
    ELSE ShardPass(local_shape, global_offset, mesh, pls, my_coordinate, idx + 1)

\* num_shards_by_tensor_dim: the number of shards of tensor dimension d
num_shards_by_tensor_dim(mesh, pls, d) ==
    Product([i \in 1..Len(pls) |->
                IF is_shard(pls[i]) /\ pls[i].dim = d THEN mesh[i] ELSE 1])

strided_part_check_off(ended, p) == FALSE

\* Whether the plain Shard p is rejected: the strided part of its tensor
\* dimension has ended.
strided_part_check(ended, p) == ended[p.dim + 1]

RECURSIVE StridedPass(_, _, _, _, _, _, _)
\* The second loop, run when a _StridedShard is present: tracks per tensor
\* dimension whether a strided part was seen and has ended (a plain Shard on
\* that dimension came after it), and the stride of the shard index per mesh
\* dimension.
StridedPass(mesh, pls, idx, seen, ended, num_shards, stride) ==
    IF idx > Len(pls)
    THEN [exc |-> None, stride |-> stride]
    ELSE IF ~is_shard(pls[idx])
    THEN StridedPass(mesh, pls, idx + 1, seen, ended, num_shards, stride)
    ELSE LET d == pls[idx].dim + 1 IN
         IF is_strided_shard(pls[idx])
         THEN StridedPass(mesh, pls, idx + 1, [seen EXCEPT ![d] = TRUE], ended,
                          num_shards,
                          [stride EXCEPT ![d][idx] =
                              num_shards[d] \div (pls[idx].split_factor * mesh[idx])])
         ELSE IF strided_part_check(ended, pls[idx])
         THEN [exc |-> "NotImplementedError", stride |-> stride]
         ELSE LET n2 == num_shards[d] \div mesh[idx]
              IN  StridedPass(mesh, pls, idx + 1, seen,
                              IF seen[d] THEN [ended EXCEPT ![d] = TRUE] ELSE ended,
                              [num_shards EXCEPT ![d] = n2],
                              [stride EXCEPT ![d][idx] = n2])

NotImplementedMsg == "Strided sharding does not allow Shard() to appear after the strided part has ended"

\* compute_local_shape_and_global_offset(global_shape, mesh, placements) as
\* evaluated on the rank with coordinate my_coordinate.
compute_local_shape_and_global_offset(gs, mesh, pls, my_coordinate) ==
    LET first == ShardPass(gs, [d \in 1..Len(gs) |-> 0], mesh, pls, my_coordinate, 1)
        strided_sharding == \E i \in 1..Len(pls) : is_strided_shard(pls[i])
        second == StridedPass(mesh, pls, 1,
                              [d \in 1..Len(gs) |-> FALSE], [d \in 1..Len(gs) |-> FALSE],
                              [d \in 1..Len(gs) |-> num_shards_by_tensor_dim(mesh, pls, d - 1)],
                              [d \in 1..Len(gs) |-> [i \in 1..Len(pls) |-> 0]])
        shard_idx == [d \in 1..Len(gs) |->
                        SumSeq([i \in 1..Len(pls) |-> second.stride[d][i] * my_coordinate[i]])]
    IN  IF ~strided_sharding
        THEN [exc |-> None, msg |-> None, val |-> Some(first)]
        ELSE IF second.exc # None
        THEN [exc |-> second.exc, msg |-> NotImplementedMsg, val |-> NoneOpt]
        ELSE [exc |-> None, msg |-> None,
              val |-> Some([local_shape |-> first.local_shape,
                            global_offset |-> [d \in 1..Len(gs) |->
                                                first.local_shape[d] * shard_idx[d]]])]

GlobalShapes == [1..TensorNdim -> 0..MaxDimSize]

\* The shape of the strided-order runs: [2 * world_size, 2 * world_size]
StridedShapes == {[d \in 1..TensorNdim |-> 2 * MaxRanks]}

\* Every rank of the mesh evaluates the function on the same arguments.
InitPlacement(shapes, meshes, plset) ==
    /\ global_shape \in shapes
    /\ mesh_shape \in meshes
    /\ placements \in [1..Len(mesh_shape) -> plset]
    /\ local_out = EmptyMap

\* The rank with coordinate coord calls compute_local_shape_and_global_offset.
call_compute_local_shape_and_global_offset(coord) ==
    /\ coord \notin DOMAIN local_out
    /\ local_out' = [c \in DOMAIN local_out \cup {coord} |->
                        IF c = coord
                        THEN compute_local_shape_and_global_offset(
                                 global_shape, mesh_shape, placements, coord)
                        ELSE local_out[c]]
    /\ UNCHANGED <<global_shape, mesh_shape, placements>>
    /\ UNCHANGED restPlace

NextPlace ==
    \E coord \in AllCoords(mesh_shape) : call_compute_local_shape_and_global_offset(coord)

\* compute_local_shape(global_shape, mesh, placements) as evaluated on the
\* rank with coordinate my_coordinate: the same loop over the mesh
\* dimensions, without the offsets.
compute_local_shape(gs, mesh, pls, my_coordinate) ==
    ShardPass(gs, [d \in 1..Len(gs) |-> 0], mesh, pls, my_coordinate, 1).local_shape

\* The rank with coordinate coord calls compute_local_shape.
call_compute_local_shape(coord) ==
    /\ coord \notin DOMAIN local_out
    /\ local_out' = [c \in DOMAIN local_out \cup {coord} |->
                        IF c = coord
                        THEN compute_local_shape(global_shape, mesh_shape, placements, coord)
                        ELSE local_out[c]]
    /\ UNCHANGED <<global_shape, mesh_shape, placements>>
    /\ UNCHANGED restPlace

NextLocalShape ==
    \E coord \in AllCoords(mesh_shape) : call_compute_local_shape(coord)

\* 1-D and 2-D meshes, as in the offset tests
Meshes2D ==
    {m \in UNION {[1..n -> 1..MaxMeshDimSize] : n \in 1..2} : Product(m) <= MaxRanks2D}

\* Meshes of up to MaxMeshNdim dimensions with at most MaxRanks ranks
MeshesND ==
    {m \in UNION {[1..n -> 1..MaxRanks] : n \in 3..MaxMeshNdim} : Product(m) <= MaxRanks}

IdlePlace ==
    /\ global_shape = <<>>
    /\ mesh_shape = <<>>
    /\ placements = <<>>
    /\ local_out = EmptyMap

(***************************************************************************)
(* Placement model: _split_tensor and _to_replicate_tensor                  *)
(* (torch/distributed/tensor/placement_types.py)                           *)
(***************************************************************************)
MaxRows == 2           \* tensors have 1..MaxRows rows
MaxCols == 8           \* and 0..MaxCols columns
MaxSplitFactor == 2    \* split factors range over 1..MaxSplitFactor

\* A 2-D tensor: its shape and its rows.
Tensor(shape, rows) == [shape |-> shape, rows |-> rows]

\* torch.arange(r * c).view(r, c)
arange_view(r, c) ==
    Tensor(<<r, c>>, [i \in 1..r |-> [j \in 1..c |-> (i - 1) * c + (j - 1)]])

\* tensor.narrow(dim, start, length)
narrow(t, dim, start, length) ==
    IF dim = 0
    THEN Tensor(<<length, t.shape[2]>>, SubSeq(t.rows, start + 1, start + length))
    ELSE Tensor(<<t.shape[1], length>>,
                [i \in 1..t.shape[1] |-> SubSeq(t.rows[i], start + 1, start + length)])

\* torch.cat(ts, dim)
cat(ts, dim) ==
    IF dim = 0
    THEN Tensor(<<SumSeq([k \in 1..Len(ts) |-> ts[k].shape[1]]), ts[1].shape[2]>>,
                Chain([k \in 1..Len(ts) |-> ts[k].rows]))
    ELSE Tensor(<<ts[1].shape[1], SumSeq([k \in 1..Len(ts) |-> ts[k].shape[2]])>>,
                [i \in 1..ts[1].shape[1] |->
                    Chain([k \in 1..Len(ts) |-> ts[k].rows[i]])])

\* torch.chunk(t, chunks, dim): chunks of ceil(size / chunks) elements, the
\* last one shorter; fewer than `chunks` chunks when the size runs out.
chunk(t, chunks, dim) ==
    LET size == t.shape[dim + 1]
        chunk_size == (size + chunks - 1) \div chunks
        count == IF size = 0 THEN chunks ELSE (size + chunk_size - 1) \div chunk_size
    IN  [k \in 1..count |->
            LET start == (k - 1) * chunk_size
                stop == IF k * chunk_size < size THEN k * chunk_size ELSE size
            IN  narrow(t, dim, start, stop - start)]

\* pad_tensor(t, dim, pad_size): zeros appended along dim
pad_tensor(t, dim, pad_size) ==
    IF dim = 0
    THEN Tensor(<<t.shape[1] + pad_size, t.shape[2]>>,
                t.rows \o [i \in 1..pad_size |-> [j \in 1..t.shape[2] |-> 0]])
    ELSE Tensor(<<t.shape[1], t.shape[2] + pad_size>>,
                [i \in 1..t.shape[1] |-> t.rows[i] \o [j \in 1..pad_size |-> 0]])

\* unpad_tensor(t, dim, pad_size): the last pad_size entries along dim removed
unpad_tensor(t, dim, pad_size) == narrow(t, dim, 0, t.shape[dim + 1] - pad_size)

\* Shard._split_tensor(tensor, num_chunks): torch.chunk, empty tensors for the
\* ranks past the last chunk, every shard padded to the full chunk size.
Shard_split_tensor(p, t, num_chunks) ==
    LET tensor_list == chunk(t, num_chunks, p.dim)
        full_chunk_size == (t.shape[p.dim + 1] + num_chunks - 1) \div num_chunks
        filled == [k \in 1..num_chunks |->
                      IF k <= Len(tensor_list) THEN tensor_list[k]
                      ELSE narrow(t, p.dim, 0, 0)]
        pad_sizes == [k \in 1..num_chunks |-> full_chunk_size - filled[k].shape[p.dim + 1]]
    IN  [shards |-> [k \in 1..num_chunks |-> pad_tensor(filled[k], p.dim, pad_sizes[k])],
         pad_sizes |-> pad_sizes]

strided_chunk_index_contiguous(i, j, num_chunks, split_factor) == i * split_factor + j

\* The block of the total split that is the j-th piece of rank i's shard: the
\* blocks of one rank are num_chunks apart.
strided_chunk_index(i, j, num_chunks, split_factor) == i + j * num_chunks

\* _StridedShard._split_tensor(tensor, num_chunks): the tensor is cut into
\* num_chunks * split_factor blocks and rank i's shard is the concatenation of
\* its interleaved blocks.  Even sharding only, no padding.
StridedShard_split_tensor(p, t, num_chunks) ==
    LET total_split == num_chunks * p.split_factor
        total_split_tensor_list == chunk(t, total_split, p.dim)
    IN  [shards |-> [i \in 1..num_chunks |->
                        cat([j \in 1..p.split_factor |->
                                total_split_tensor_list[
                                    strided_chunk_index(i - 1, j - 1, num_chunks,
                                                        p.split_factor) + 1]],
                            p.dim)],
         pad_sizes |-> [k \in 1..num_chunks |-> 0]]

_split_tensor(p, t, num_chunks) ==
    IF is_strided_shard(p) THEN StridedShard_split_tensor(p, t, num_chunks)
    ELSE Shard_split_tensor(p, t, num_chunks)

\* _split_tensor is defined on t: _StridedShard asserts even sharding.
can_split(p, t, num_chunks) ==
    is_strided_shard(p) => t.shape[p.dim + 1] % (num_chunks * p.split_factor) = 0

\* funcol.all_gather_tensor(local, gather_dim, group): the group's tensors
\* concatenated in rank order
all_gather_tensor(locals, gather_dim) == cat(locals, gather_dim)

\* Shard._to_replicate_tensor: pad the local shard to the full chunk size,
\* all-gather, remove the padding at the end.
Shard_to_replicate_tensor(p, locals, num_chunks, current_logical_shape) ==
    LET logical_dim_size == current_logical_shape[p.dim + 1]
        full_chunk_size == (logical_dim_size + num_chunks - 1) \div num_chunks
        padded == [k \in 1..num_chunks |->
                      pad_tensor(locals[k], p.dim,
                                 full_chunk_size - locals[k].shape[p.dim + 1])]
        result == all_gather_tensor(padded, p.dim)
    IN  unpad_tensor(result, p.dim, full_chunk_size * num_chunks - logical_dim_size)

idx_after_split_identity(idx, num_chunks, split_factor) == idx

\* Where block idx of the logical order sits in the gathered tensor
idx_after_split(idx, num_chunks, split_factor) ==
    (idx % num_chunks) * split_factor + (idx \div num_chunks)

\* _StridedShard._to_replicate_tensor: all-gather, cut into the total split
\* and put the blocks back in logical order.
StridedShard_to_replicate_tensor(p, locals, num_chunks, current_logical_shape) ==
    LET total_split == num_chunks * p.split_factor
        result == all_gather_tensor(locals, p.dim)
        tensor_shard_list == chunk(result, total_split, p.dim)
    IN  cat([k \in 1..total_split |->
                tensor_shard_list[idx_after_split(k - 1, num_chunks, p.split_factor) + 1]],
            p.dim)

_to_replicate_tensor(p, locals, num_chunks, current_logical_shape) ==
    IF is_strided_shard(p)
    THEN StridedShard_to_replicate_tensor(p, locals, num_chunks, current_logical_shape)
    ELSE Shard_to_replicate_tensor(p, locals, num_chunks, current_logical_shape)

SplitPlacements ==
    {Shard(d) : d \in TensorDims}
        \cup {_StridedShard(d, sf) : d \in TensorDims, sf \in 1..MaxSplitFactor}

SplitMeshes == {m \in [1..2 -> 1..MaxMeshDimSize] : Product(m) <= MaxRanks2D}

\* x = arange(r * c).view(r, c), replicated on every rank of a 2-D mesh
InitSplit ==
    /\ x_full \in {arange_view(r, c) : r \in 1..MaxRows, c \in 0..MaxCols}
    /\ split_mesh \in SplitMeshes
    /\ applied = <<>>
    /\ shard_x = [c \in AllCoords(split_mesh) |-> x_full]
    /\ logical = <<>>
    /\ undone = 0

\* Shard on the next mesh dimension: every rank splits its tensor with
\* _split_tensor and keeps the chunk of its coordinate, without the padding.
shard_on_mesh_dim(p) ==
    LET mesh_dim == Len(applied) + 1 IN
    /\ undone = 0
    /\ mesh_dim <= Len(split_mesh)
    /\ \A c \in DOMAIN shard_x : can_split(p, shard_x[c], split_mesh[mesh_dim])
    /\ shard_x' = [c \in DOMAIN shard_x |->
                      LET res == _split_tensor(p, shard_x[c], split_mesh[mesh_dim])
                      IN  unpad_tensor(res.shards[c[mesh_dim] + 1], p.dim,
                                       res.pad_sizes[c[mesh_dim] + 1])]
    /\ applied' = Append(applied, p)
    /\ logical' = Append(logical, shard_x)
    /\ UNCHANGED <<x_full, split_mesh, undone>>
    /\ UNCHANGED restSplit

\* shard-to-replicate on the innermost mesh dimension still sharded: the
\* ranks of each group along it all-gather.
to_replicate_on_mesh_dim ==
    LET mesh_dim == Len(applied) - undone IN
    /\ mesh_dim >= 1
    /\ shard_x' = [c \in DOMAIN shard_x |->
                      _to_replicate_tensor(
                          applied[mesh_dim],
                          [k \in 1..split_mesh[mesh_dim] |->
                              shard_x[[c EXCEPT ![mesh_dim] = k - 1]]],
                          split_mesh[mesh_dim],
                          logical[mesh_dim][c].shape)]
    /\ undone' = undone + 1
    /\ UNCHANGED <<x_full, split_mesh, applied, logical>>
    /\ UNCHANGED restSplit

NextSplit ==
    \/ \E p \in SplitPlacements : shard_on_mesh_dim(p)
    \/ to_replicate_on_mesh_dim

IdleSplit ==
    /\ x_full = <<>>
    /\ split_mesh = <<>>
    /\ applied = <<>>
    /\ shard_x = EmptyMap
    /\ logical = <<>>
    /\ undone = 0

(***************************************************************************)
(* FSDP: the wrapped module tree and the runtime's helper functions         *)
(***************************************************************************)
MaxMicrobatches == 2    \* outermost forward calls per run
MaxCalls == 2           \* other API calls per run
MaxPending == 2         \* reduce-scatters the device may lag behind the host

\* module.modules() of the outermost wrapper, in traversal order: a wrapped
\* Sequential whose Linear child is wrapped itself
FSDPModules == <<"seq", "lin0">>
Modules == {FSDPModules[i] : i \in 1..Len(FSDPModules)}
parent == [m \in Modules |-> IF m = "seq" THEN None ELSE "seq"]

RECURSIVE IsWithin(_, _)
\* m is the module a or nested in it
IsWithin(m, a) == m = a \/ (parent[m] # None /\ IsWithin(parent[m], a))

\* FullyShardedDataParallel.fsdp_modules(module): every nested FSDP instance,
\* the module itself first
fsdp_modules(module) == SelectSeq(FSDPModules, LAMBDA x : IsWithin(x, module))

SeqToSet(s) == {s[i] : i \in 1..Len(s)}

ShardingStrategy == {"FULL_SHARD", "SHARD_GRAD_OP", "NO_SHARD"}
TrainingState ==
    {"IDLE", "FORWARD", "BACKWARD_PRE", "BACKWARD_POST", "SUMMON_FULL_PARAMS"}

\* The runtime state the helper functions read and update
St ==
    [_is_root |-> _is_root,
     training_state |-> training_state,
     handle_training_state |-> handle_training_state,
     flat_param |-> flat_param,
     _sync_gradients |-> _sync_gradients]

Ok(st) == [st |-> st, exc |-> None]
Exc(st, e) == [st |-> st, exc |-> e]

RECURSIVE _share_state_and_init_handle_attrs(_, _, _)
\* the root marks every other FSDP instance of its subtree as non-root
_share_state_and_init_handle_attrs(st, root_state, mods) ==
    IF mods = <<>> THEN Ok(st)
    ELSE LET m == Head(mods) IN
         IF m = root_state
         THEN _share_state_and_init_handle_attrs(st, root_state, Tail(mods))
         ELSE IF st._is_root[m] = "True"
         THEN Exc(st, "AssertionError")
         ELSE _share_state_and_init_handle_attrs(
                  [st EXCEPT !._is_root[m] = "False"], root_state, Tail(mods))

\* _lazy_init(state, root_module), always called as _lazy_init(self, self):
\* a no-op once _is_root is set; otherwise the caller becomes the root of
\* its own subtree
_lazy_init(st, state) ==
    IF st._is_root[state] # None THEN Ok(st)
    ELSE LET s1 == [st EXCEPT !._is_root[state] = "True"] IN
         IF s1.training_state[state] # "IDLE" THEN Exc(s1, "ValueError")
         ELSE _share_state_and_init_handle_attrs(s1, state, fsdp_modules(state))

uses_sharded_strategy(m) == sharding_strategy[m] # "NO_SHARD"

\* handle.unshard(): flat_param.data points at the all-gathered buffer
_unshard(st, m) ==
    IF uses_sharded_strategy(m)
    THEN [st EXCEPT !.flat_param[m] = [data |-> "unsharded", allocated |-> TRUE]]
    ELSE st

\* _reshard(state, [handle], [free]): flat_param.data points at the local
\* shard again; the all-gathered buffer is freed if asked
_reshard(st, m, free) ==
    [st EXCEPT !.flat_param[m] =
        [data |-> "local_shard", allocated |-> IF free THEN FALSE ELSE @.allocated]]

_should_free_in_backward(st, m) == uses_sharded_strategy(m)

\* reshard_after_forward of a unit
reshard_after_forward(m) == sharding_strategy[m] = "FULL_SHARD"

_post_forward_reshard(st, m) ==
    IF reshard_after_forward(m) THEN _reshard(st, m, TRUE) ELSE st

\* _unshard_params(module, state, ...): entering
_unshard_params_enter(st, m) ==
    IF st.handle_training_state[m] # "IDLE"
    THEN [st |-> st, exc |-> "AssertionError", free |-> FALSE]
    ELSE [st |-> _unshard([st EXCEPT !.handle_training_state[m] =
                               "SUMMON_FULL_PARAMS"], m),
          exc |-> None,
          free |-> uses_sharded_strategy(m) /\ ~st.flat_param[m].allocated]

\* _unshard_params(module, state, ...): leaving
_unshard_params_exit(st, m, free) ==
    [_reshard(st, m, free) EXCEPT !.handle_training_state[m] = "IDLE"]

\* self._summon_full_params(recurse=False): up to the yield
_summon_full_params_enter(st, self) ==
    LET li == _lazy_init(st, self) IN
    IF li.exc # None THEN [st |-> li.st, exc |-> li.exc, free |-> FALSE]
    ELSE LET up == _unshard_params_enter(li.st, self) IN
         IF up.exc # None THEN up
         ELSE [up EXCEPT !.st.training_state[self] = "SUMMON_FULL_PARAMS"]

\* a context whose finally clause would run only on a normal exit
_summon_full_params_exit_on_return(st, self, free, raised) ==
    _unshard_params_exit(
        IF raised THEN st ELSE [st EXCEPT !.training_state[self] = "IDLE"],
        self, free)

\* self._summon_full_params(recurse=False): after the yield, the body having
\* returned or raised
_summon_full_params_exit(st, self, free, raised) ==
    _unshard_params_exit([st EXCEPT !.training_state[self] = "IDLE"], self, free)

RECURSIVE ExitContexts(_, _, _)
\* ExitStack.__exit__: leave the entered contexts, last first
ExitContexts(st, entered, raised) ==
    IF entered = <<>> THEN st
    ELSE LET e == entered[Len(entered)] IN
         ExitContexts(_summon_full_params_exit(st, e.m, e.free, raised),
                      SubSeq(entered, 1, Len(entered) - 1), raised)

RECURSIVE EnterContexts(_, _, _)
\* ExitStack.enter_context(module._summon_full_params(recurse=False)) for
\* each module in turn; if one raises, the entered ones are left
EnterContexts(st, mods, entered) ==
    IF mods = <<>> THEN [st |-> st, exc |-> None, entered |-> entered]
    ELSE LET r == _summon_full_params_enter(st, Head(mods)) IN
         IF r.exc # None
         THEN [st |-> ExitContexts(r.st, entered, TRUE), exc |-> r.exc,
               entered |-> <<>>]
         ELSE EnterContexts(r.st, Tail(mods),
                            Append(entered, [m |-> Head(mods), free |-> r.free]))

RECURSIVE RootOnly(_, _, _)
\* fsdp_modules(module, root_only=True): check_is_root() on every instance
RootOnly(st, mods, roots) ==
    IF mods = <<>> THEN [st |-> st, exc |-> None, roots |-> roots]
    ELSE LET r == _lazy_init(st, Head(mods)) IN
         IF r.exc # None THEN [st |-> r.st, exc |-> r.exc, roots |-> <<>>]
         ELSE RootOnly(r.st, Tail(mods),
                       IF r.st._is_root[Head(mods)] = "True"
                       THEN Append(roots, Head(mods)) ELSE roots)

\* a finally clause that restores nothing
RestoreFlags_nothing(st, mods, old_flags) == Ok(st)

RECURSIVE RestoreFlags(_, _, _)
\* no_sync: the finally clause
RestoreFlags(st, mods, old_flags) ==
    IF mods = <<>> THEN Ok(st)
    ELSE IF st._sync_gradients[Head(mods)] THEN Exc(st, "AssertionError")
    ELSE RestoreFlags(
             [st EXCEPT !._sync_gradients[Head(mods)] = old_flags[Head(mods)]],
             Tail(mods), old_flags)

(***************************************************************************)
(* FSDP: the control thread's calls                                        *)
(***************************************************************************)
cfgVars == <<sharding_strategy, cpu_offload, requires_grad>>
hookVars ==
    <<grad, _post_backward_called, _post_backward_callback_queued,
      _ran_pre_backward_hook, _handles_prefetched, bw, post_backward_stream,
      rs_log, mb_log, rs_unfinalized>>

NoGraph == [top |-> None, mb |-> 0, mods |-> {}, building |-> FALSE]
NoBw ==
    [top |-> None, mb |-> 0, mods |-> {}, pre_ran |-> {}, fired |-> {},
     callbacks |-> <<>>, finalizing |-> FALSE]

\* An open call or context of the control thread
Frame(op, m, entered, uninitialized, pending, old_flags) ==
    [op |-> op, m |-> m, entered |-> entered, uninitialized |-> uninitialized,
     pending |-> pending, old_flags |-> old_flags]
ForwardFrame(m) == Frame("forward", m, <<>>, FALSE, <<>>, <<>>)

\* last tells the step that was just taken, when it is one a claim is about
Last(op, m, exc) ==
    [op |-> op, m |-> m, exc |-> exc, resharded |-> {}, pre_ran |-> {},
     fired |-> {}]
NoLast == Last(None, None, None)

Commit(st) ==
    /\ _is_root' = st._is_root
    /\ training_state' = st.training_state
    /\ handle_training_state' = st.handle_training_state
    /\ flat_param' = st.flat_param
    /\ _sync_gradients' = st._sync_gradients

\* What leaving a frame through an exception runs
ExitFrame(st, f) ==
    CASE f.op \in {"summon_full_params", "apply"} -> ExitContexts(st, f.entered, TRUE)
      [] f.op = "no_sync" -> RestoreFlags(st, fsdp_modules(f.m), f.old_flags).st
      [] OTHER -> st

RECURSIVE Unwind(_, _, _)
\* an exception leaves the frames above the k-th, innermost first
Unwind(st, frames, k) ==
    IF Len(frames) <= k THEN st
    ELSE Unwind(ExitFrame(st, frames[Len(frames)]),
                SubSeq(frames, 1, Len(frames) - 1), k)

HasForward(frames) == \E i \in 1..Len(frames) : frames[i].op = "forward"
OnlyNoSync(frames) == \A i \in 1..Len(frames) : frames[i].op = "no_sync"
Top == stack[Len(stack)]

\* A call raises, the runtime state being st (l is what last records): the exception
\* leaves the open frames until the user code of frame k catches it, or it
\* reaches the top level (k = 0). The callback of apply is no place to catch.
Raises(l, st, kmax) ==
    \E k \in 0..kmax :
        /\ IF k = 0 THEN TRUE ELSE stack[k].op # "apply"
        /\ Commit(Unwind(st, stack, k))
        /\ stack' = SubSeq(stack, 1, k)
        /\ graph' = IF graph.building /\ ~HasForward(SubSeq(stack, 1, k))
                    THEN NoGraph ELSE graph
        /\ last' = l

\* A call of the API may start wherever user code runs, but not from inside
\* the autograd engine
CanCall == bw = NoBw /\ ncalls < MaxCalls

check_is_root(self) ==
    /\ CanCall
    /\ ncalls' = ncalls + 1
    /\ LET li == _lazy_init(St, self) IN
       IF li.exc # None
       THEN Raises(NoLast, li.st, Len(stack))
       ELSE /\ Commit(li.st)
            /\ last' = NoLast
            /\ UNCHANGED <<stack, graph>>
    /\ UNCHANGED <<cfgVars, hookVars, _post_backward_hook_state, nforward>>
    /\ UNCHANGED restFSDP

state_dict(self) ==
    /\ CanCall
    /\ ncalls' = ncalls + 1
    /\ LET li == _lazy_init(St, self) IN
       IF li.exc # None
       THEN Raises(NoLast, li.st, Len(stack))
       ELSE /\ Commit(li.st)
            /\ last' = NoLast
            /\ UNCHANGED <<stack, graph>>
    /\ UNCHANGED <<cfgVars, hookVars, _post_backward_hook_state, nforward>>
    /\ UNCHANGED restFSDP

\* _pre_forward(self, self._handles, unshard_fn, ...)
_pre_forward(st, self) ==
    _unshard([st EXCEPT !.training_state[self] = "FORWARD",
                        !.handle_training_state[self] = "FORWARD"], self)

\* _post_forward(self, self._handles, reshard_fn, ...)
_post_forward(st, self) ==
    [_post_forward_reshard(st, self) EXCEPT
        !.training_state[self] = "IDLE",
        !.handle_training_state[self] = "IDLE"]

\* The training loop calls the wrapper it regards as the root, outside any
\* full-parameter context; a wrapped module's forward calls its children.
CanForward(self) ==
    /\ bw = NoBw
    /\ \/ /\ OnlyNoSync(stack)
          /\ nforward < MaxMicrobatches
          /\ _is_root[self] # "False"
       \/ /\ stack # <<>>
          /\ Top.op = "forward"
          /\ parent[self] = Top.m
          /\ self \notin graph.mods

\* forward, up to the call of the wrapped module
forward_enter(self) ==
    /\ CanForward(self)
    /\ LET outermost == ~HasForward(stack)
           li == _lazy_init(St, self)
       IN /\ nforward' = IF outermost THEN nforward + 1 ELSE nforward
          /\ IF li.exc # None
             THEN /\ Raises(NoLast, li.st, Len(stack))
                  /\ UNCHANGED _post_backward_hook_state
             ELSE /\ Commit(_pre_forward(li.st, self))
                  /\ _post_backward_hook_state' =
                         [_post_backward_hook_state EXCEPT
                             ![self] = @ \/ requires_grad[self]]
                  /\ stack' = Append(stack, ForwardFrame(self))
                  /\ graph' = IF outermost
                              THEN [top |-> self, mb |-> nforward + 1,
                                    mods |-> {}, building |-> TRUE]
                              ELSE graph
                  /\ last' = NoLast
    /\ UNCHANGED <<cfgVars, hookVars, ncalls>>
    /\ UNCHANGED restFSDP

\* forward, the wrapped module having returned its output
forward_return(self) ==
    /\ stack # <<>> /\ Top.op = "forward" /\ Top.m = self
    /\ Commit(_post_forward(St, self))
    /\ stack' = SubSeq(stack, 1, Len(stack) - 1)
    /\ graph' = [graph EXCEPT !.mods = @ \cup {self},
                              !.building = self # graph.top]
    /\ last' = NoLast
    /\ UNCHANGED <<cfgVars, hookVars, _post_backward_hook_state, nforward, ncalls>>
    /\ UNCHANGED restFSDP

\* forward, the wrapped module having raised
forward_raise(self) ==
    /\ stack # <<>> /\ Top.op = "forward" /\ Top.m = self
    /\ Raises(NoLast, St, Len(stack) - 1)
    /\ UNCHANGED <<cfgVars, hookVars, _post_backward_hook_state, nforward, ncalls>>
    /\ UNCHANGED restFSDP

\* FullyShardedDataParallel.summon_full_params(module, recurse): entering
summon_full_params(module, recurse) ==
    /\ CanCall
    /\ ncalls' = ncalls + 1
    /\ LET ro == RootOnly(St, fsdp_modules(module), <<>>)
           todo == Chain([i \in 1..Len(ro.roots) |->
                            IF recurse THEN fsdp_modules(ro.roots[i])
                            ELSE <<ro.roots[i]>>])
           en == EnterContexts(ro.st, todo, <<>>)
       IN IF ro.exc # None
          THEN Raises(NoLast, ro.st, Len(stack))
          ELSE IF en.exc # None
          THEN Raises(NoLast, en.st, Len(stack))
          ELSE /\ Commit(en.st)
               /\ stack' = Append(stack, Frame("summon_full_params", module,
                                               en.entered, FALSE, <<>>, <<>>))
               /\ last' = NoLast /\ UNCHANGED graph
    /\ UNCHANGED <<cfgVars, hookVars, _post_backward_hook_state, nforward>>
    /\ UNCHANGED restFSDP

\* summon_full_params: the body returns
summon_full_params_return ==
    /\ stack # <<>> /\ Top.op = "summon_full_params"
    /\ Commit(ExitContexts(St, Top.entered, FALSE))
    /\ stack' = SubSeq(stack, 1, Len(stack) - 1)
    /\ last' = Last("summon_full_params", Top.m, None)
    /\ UNCHANGED <<cfgVars, hookVars, _post_backward_hook_state, graph,
                   nforward, ncalls>>
    /\ UNCHANGED restFSDP

\* summon_full_params: the body raises
summon_full_params_raise ==
    /\ stack # <<>> /\ Top.op = "summon_full_params"
    /\ Raises(Last("summon_full_params", Top.m, "RuntimeError"), St, Len(stack) - 1)
    /\ UNCHANGED <<cfgVars, hookVars, _post_backward_hook_state, nforward, ncalls>>
    /\ UNCHANGED restFSDP

\* The FSDP instances super().apply(fn) reaches first below self
fsdp_children(self) == SelectSeq(FSDPModules, LAMBDA x : parent[x] = self)

\* apply(fn), up to super().apply(fn)
apply_enter(self) ==
    /\ \/ CanCall /\ ncalls' = ncalls + 1
       \/ /\ bw = NoBw /\ stack # <<>> /\ Top.op = "apply"
          /\ Top.pending # <<>> /\ Head(Top.pending) = self
          /\ UNCHANGED ncalls
    /\ LET uninitialized == _is_root[self] = None
           en == EnterContexts(St, <<self>>, <<>>)
       IN IF training_state[self] # "IDLE"
          THEN Raises(NoLast, St, Len(stack))
          ELSE IF en.exc # None
          THEN Raises(NoLast, en.st, Len(stack))
          ELSE /\ Commit(en.st)
               /\ stack' = Append(stack, Frame("apply", self, en.entered,
                                               uninitialized,
                                               fsdp_children(self), <<>>))
               /\ last' = NoLast /\ UNCHANGED graph
    /\ UNCHANGED <<cfgVars, hookVars, _post_backward_hook_state, nforward>>
    /\ UNCHANGED restFSDP

RECURSIVE ResetAll(_, _)
\* module._reset_lazy_init() for every module of the list
ResetAll(st, mods) ==
    IF mods = <<>> THEN st
    ELSE ResetAll([st EXCEPT !._is_root[Head(mods)] = None], Tail(mods))

\* apply(fn): fn has returned for every submodule
apply_return(self) ==
    /\ stack # <<>> /\ Top.op = "apply" /\ Top.m = self
    /\ LET done == SubSeq(stack, 1, Len(stack) - 1)
           s1 == ExitContexts(St, Top.entered, FALSE)
           s2 == IF Top.uninitialized /\ s1._is_root[self] = "True"
                 THEN ResetAll(s1, fsdp_modules(self)) ELSE s1
       IN /\ Commit(s2)
          /\ stack' = IF done # <<>> /\ done[Len(done)].op = "apply"
                         /\ done[Len(done)].pending # <<>>
                         /\ Head(done[Len(done)].pending) = self
                      THEN [done EXCEPT ![Len(done)].pending = Tail(@)]
                      ELSE done
    /\ last' = Last("apply", self, None)
    /\ UNCHANGED <<cfgVars, hookVars, _post_backward_hook_state, graph,
                   nforward, ncalls>>
    /\ UNCHANGED restFSDP

\* apply(fn): fn raises
apply_raise(self) ==
    /\ stack # <<>> /\ Top.op = "apply" /\ Top.m = self
    /\ Raises(Last("apply", self, "RuntimeError"), St, Len(stack) - 1)
    /\ UNCHANGED <<cfgVars, hookVars, _post_backward_hook_state, nforward, ncalls>>
    /\ UNCHANGED restFSDP

\* no_sync(): up to the yield
no_sync_enter(self) ==
    /\ CanCall
    /\ ncalls' = ncalls + 1
    /\ LET li == _lazy_init(St, self)
           subtree == SeqToSet(fsdp_modules(self))
       IN IF li.exc # None
          THEN Raises(NoLast, li.st, Len(stack))
          ELSE IF li.st._is_root[self] # "True"
          THEN Raises(NoLast, li.st, Len(stack))
          ELSE IF li.st.training_state[self] # "IDLE"
          THEN Raises(NoLast, li.st, Len(stack))
          ELSE /\ Commit([li.st EXCEPT !._sync_gradients =
                            [m \in Modules |-> IF m \in subtree THEN FALSE ELSE @[m]]])
               /\ stack' = Append(stack, Frame("no_sync", self, <<>>, FALSE, <<>>,
                               [m \in subtree |-> _sync_gradients[m]]))
               /\ last' = NoLast /\ UNCHANGED graph
    /\ UNCHANGED <<cfgVars, hookVars, _post_backward_hook_state, nforward>>
    /\ UNCHANGED restFSDP

\* no_sync(): the body returns
no_sync_return ==
    /\ stack # <<>> /\ Top.op = "no_sync"
    /\ bw = NoBw
    /\ LET r == RestoreFlags(St, fsdp_modules(Top.m), Top.old_flags) IN
       IF r.exc # None
       THEN \E k \in 0..(Len(stack) - 1) :
               /\ Commit(Unwind(r.st, SubSeq(stack, 1, Len(stack) - 1), k))
               /\ stack' = SubSeq(stack, 1, k)
               /\ last' = NoLast
       ELSE /\ Commit(r.st)
            /\ stack' = SubSeq(stack, 1, Len(stack) - 1)
            /\ last' = Last("no_sync", Top.m, None)
    /\ UNCHANGED <<cfgVars, hookVars, _post_backward_hook_state, graph,
                   nforward, ncalls>>
    /\ UNCHANGED restFSDP

\* no_sync(): the body raises
no_sync_raise ==
    /\ stack # <<>> /\ Top.op = "no_sync"
    /\ bw = NoBw
    /\ Raises(Last("no_sync", Top.m, "Exception"), St, Len(stack) - 1)
    /\ UNCHANGED <<cfgVars, hookVars, _post_backward_hook_state, nforward, ncalls>>
    /\ UNCHANGED restFSDP

(***************************************************************************)
(* FSDP: the backward pass, run by the autograd engine                      *)
(***************************************************************************)
NoGrad == [kind |-> None, mbs |-> {}, has_saved |-> FALSE, _saved_grad_shard |-> {}]

\* handle.prepare_gradient_for_backward(): a sharded .grad is set aside so
\* that autograd computes a fresh unsharded gradient
prepare_gradient_for_backward(g) ==
    IF g.kind = "sharded"
    THEN [kind |-> None, mbs |-> {}, has_saved |-> TRUE, _saved_grad_shard |-> g.mbs]
    ELSE g

\* handle.prepare_gradient_for_optim(): the sharded gradient set aside
\* becomes .grad, unless .grad holds a gradient already
prepare_gradient_for_optim(g) ==
    IF g.has_saved
    THEN [kind |-> IF g.kind = None THEN "sharded" ELSE g.kind,
          mbs |-> IF g.kind = None THEN g._saved_grad_shard ELSE g.mbs,
          has_saved |-> FALSE, _saved_grad_shard |-> {}]
    ELSE g

\* autograd accumulates microbatch mb's unsharded gradient into .grad
AccumulateGrad(g, mb) == [g EXCEPT !.kind = "unsharded", !.mbs = @ \cup {mb}]

\* The reduce-scatter of the post-backward hook: the unsharded gradient is
\* reduced into the sharded one, which adds to the one set aside
reduce_scatter(g) ==
    [kind |-> None, mbs |-> {}, has_saved |-> TRUE,
     _saved_grad_shard |-> g._saved_grad_shard \cup g.mbs]

\* loss.backward() on the output of the last outermost forward
backward ==
    /\ bw = NoBw
    /\ graph.top # None /\ ~graph.building
    /\ OnlyNoSync(stack)
    /\ bw' = [top |-> graph.top, mb |-> graph.mb, mods |-> graph.mods,
              pre_ran |-> {}, fired |-> {}, callbacks |-> <<>>,
              finalizing |-> FALSE]
    /\ graph' = NoGraph
    /\ mb_log' = Append(mb_log, [mb |-> graph.mb, sync |-> _sync_gradients,
                                 fired |-> {}])
    /\ UNCHANGED <<cfgVars, _is_root, training_state, handle_training_state,
                   _sync_gradients, flat_param, grad, _post_backward_hook_state,
                   _post_backward_called, _post_backward_callback_queued,
                   _ran_pre_backward_hook, _handles_prefetched, stack,
                   post_backward_stream, nforward, ncalls, rs_log,
                   rs_unfinalized>>
    /\ last' = NoLast
    /\ UNCHANGED restFSDP

\* An exception in a hook or in the final callback comes out of the autograd
\* engine as an error of loss.backward(), which ends the training run: the
\* open contexts are left and no call follows.
Crashed ==
    [top |-> "crashed", mb |-> 0, mods |-> {}, pre_ran |-> {}, fired |-> {},
     callbacks |-> <<>>, finalizing |-> TRUE]

BackwardRaises(st) ==
    /\ Raises(NoLast, st, 0)
    /\ bw' = Crashed

\* Backward prefetching: the units of the backward pass whose pre-backward
\* hook is still to run, which the hook of m issues the all-gather for
backward_prefetch_targets(m) == bw.mods \ (bw.pre_ran \cup {m})

\* _pre_backward_hook(state, module, handles): fires on the gradient of a
\* unit's output, an enclosing unit's first
_pre_backward_hook(m) ==
    /\ bw # NoBw /\ ~bw.finalizing
    /\ m \in bw.mods \ bw.pre_ran
    /\ parent[m] \in bw.mods => parent[m] \in bw.pre_ran
    /\ IF _ran_pre_backward_hook[m]
       THEN /\ bw' = [bw EXCEPT !.pre_ran = @ \cup {m}]
            /\ UNCHANGED <<_is_root, training_state, handle_training_state,
                           _sync_gradients, flat_param, grad,
                           _post_backward_callback_queued,
                           _ran_pre_backward_hook, _handles_prefetched,
                           stack, graph>>
            /\ last' = NoLast
       ELSE LET queue == _is_root[m] = "True" /\ ~_post_backward_callback_queued[m]
            IN IF ~queue /\ training_state[m] # "IDLE"
               THEN /\ BackwardRaises(St)
                    /\ UNCHANGED <<grad, _post_backward_callback_queued,
                                   _ran_pre_backward_hook, _handles_prefetched>>
               ELSE /\ _post_backward_callback_queued' =
                           [_post_backward_callback_queued EXCEPT ![m] = @ \/ queue]
                    /\ bw' = [bw EXCEPT !.pre_ran = @ \cup {m},
                                        !.callbacks = IF queue THEN Append(@, m) ELSE @]
                    /\ Commit(_unshard([St EXCEPT
                                  !.training_state[m] = "BACKWARD_PRE",
                                  !.handle_training_state[m] = "BACKWARD_PRE"], m))
                    /\ grad' = [grad EXCEPT ![m] = prepare_gradient_for_backward(@)]
                    /\ _ran_pre_backward_hook' =
                           [_ran_pre_backward_hook EXCEPT ![m] = TRUE]
                    /\ _handles_prefetched' =
                           [_handles_prefetched EXCEPT
                               ![m] = @ \cup {m} \cup backward_prefetch_targets(m)]
                    /\ last' = NoLast /\ UNCHANGED <<stack, graph>>
    /\ UNCHANGED <<cfgVars, _post_backward_hook_state, _post_backward_called,
                   post_backward_stream, nforward, ncalls, rs_log, mb_log,
                   rs_unfinalized>>
    /\ UNCHANGED restFSDP

\* whether the post-backward hook reduce-scatters the unit's gradient
issue_reduce_scatter(m) == _sync_gradients[m]

\* _post_backward_hook(state, handle): fires once the unit's gradient has
\* been computed, if it is computed at all
_post_backward_hook(m) ==
    /\ bw # NoBw /\ ~bw.finalizing
    /\ m \in bw.pre_ran \ bw.fired
    /\ _post_backward_hook_state[m]
    /\ training_state[m] \in {"BACKWARD_PRE", "BACKWARD_POST"}
    /\ issue_reduce_scatter(m) => Len(post_backward_stream) < MaxPending
    /\ LET g == AccumulateGrad(grad[m], bw.mb) IN
       /\ _post_backward_called' = [_post_backward_called EXCEPT ![m] = TRUE]
       /\ Commit(_reshard([St EXCEPT !.training_state[m] = "BACKWARD_POST",
                                    !.handle_training_state[m] = "BACKWARD_POST"],
                          m, _should_free_in_backward(St, m)))
       /\ bw' = [bw EXCEPT !.fired = @ \cup {m}]
       /\ mb_log' = [mb_log EXCEPT ![Len(mb_log)].fired = @ \cup {m}]
       /\ IF issue_reduce_scatter(m)
          THEN /\ post_backward_stream' = Append(post_backward_stream, m)
               /\ grad' = [grad EXCEPT ![m] = reduce_scatter(g)]
               /\ rs_log' = Append(rs_log, [m |-> m, mb |-> bw.mb, reduced |-> g.mbs])
               /\ rs_unfinalized' = [rs_unfinalized EXCEPT ![m] = @ + 1]
          ELSE /\ grad' = [grad EXCEPT ![m] = g]
               /\ UNCHANGED <<post_backward_stream, rs_log, rs_unfinalized>>
    /\ UNCHANGED <<cfgVars, _post_backward_hook_state,
                   _post_backward_callback_queued, _ran_pre_backward_hook,
                   _handles_prefetched, stack, graph, nforward, ncalls>>
    /\ last' = NoLast
    /\ UNCHANGED restFSDP

\* already_resharded of _catch_all_reshard, inverted
already_resharded_inverted(m) == flat_param[m].data # "local_shard"

\* already_resharded of _catch_all_reshard
already_resharded(m) == flat_param[m].data = "local_shard"

\* _finalize_params freeing the unsharded gradient under no_sync()
_finalize_params_grad_freed(self, m) ==
    IF requires_grad[m]
    THEN IF _sync_gradients[self] THEN prepare_gradient_for_optim(grad[m])
         ELSE NoGrad
    ELSE grad[m]

\* _finalize_params(fsdp_module): what becomes of the unit's gradient
_finalize_params_grad(self, m) ==
    IF requires_grad[m] /\ _sync_gradients[self]
    THEN prepare_gradient_for_optim(grad[m])
    ELSE grad[m]

\* p_assert(cond, s, raise_assertion_error) of fsdp/_utils.py: when cond is
\* false the message is printed, and AssertionError raised if asked for
p_assert(cond, s, raise_assertion_error) ==
    [printed |-> IF cond THEN <<>> ELSE <<s>>,
     exc |-> IF ~cond /\ raise_assertion_error THEN "AssertionError" ELSE None]

\* what _reshard may raise
ReshardErrors == {"RuntimeError", "AssertionError"}

\* a handler whose report raises an assertion error of its own
_catch_all_reshard_except_asserting(fsdp_module, e) ==
    LET report == p_assert(FALSE, [module |-> fsdp_module, text |-> e], TRUE)
    IN  [printed |-> report.printed,
         exc |-> IF report.exc # None THEN report.exc ELSE e]

\* The except clause of _catch_all_reshard (lines 1018-1025): the failure
\* is reported through p_assert, which is told not to raise, and then
\* `raise e`. [printed, exc]: what was printed and what leaves the clause.
_catch_all_reshard_except(fsdp_module, e) ==
    LET report == p_assert(FALSE, [module |-> fsdp_module, text |-> e], FALSE)
    IN  [printed |-> report.printed,
         exc |-> IF report.exc # None THEN report.exc ELSE e]

\* a clean-up loop over the root alone
finalized_modules_root_only(self) == <<self>>

\* the modules the clean-up loop of _wait_for_post_backward goes over
finalized_modules(self) == fsdp_modules(self)

\* a callback that never blocks the host
blocks_host_never(self) == FALSE

\* whether _wait_for_post_backward blocks the host until the device has run
\* everything issued: current_stream().synchronize(), under CPU offload only
blocks_host(self) == _sync_gradients[self] /\ cpu_offload

\* How many modules the loop of lines 1055-1065 finalises: all of them, or
\* those before the one _catch_all_reshard raises for, since the exception
\* leaves the loop before _finalize_params and the resets of that iteration.
CleanUpCount(mods, fail) ==
    IF fail = None THEN Len(mods) ELSE IndexOf(mods, fail) - 1

\* _wait_for_post_backward(self): the final callback the root queued. The
\* host waits for the device only under CPU offload; _reshard may raise for
\* the unit fail, which ends the clean-up there.
_wait_for_post_backward(self, fail) ==
    /\ bw # NoBw /\ bw.callbacks # <<>> /\ Head(bw.callbacks) = self
    /\ _is_root[self] = "True"
    /\ blocks_host(self) => post_backward_stream = <<>>
    /\ LET mods == finalized_modules(self)
           to_reshard == {m \in SeqToSet(mods) : ~already_resharded(m)}
           n == CleanUpCount(mods, fail)
           done == {mods[i] : i \in 1..n}
           st == [St EXCEPT
                    !.flat_param = [m \in Modules |->
                        IF m \in done \cap to_reshard
                        THEN _reshard(St, m, _should_free_in_backward(St, m)).flat_param[m]
                        ELSE @[m]],
                    !.training_state = [m \in Modules |->
                        IF m \in done THEN "IDLE" ELSE @[m]],
                    !.handle_training_state = [m \in Modules |->
                        IF m \in done THEN "IDLE" ELSE @[m]]]
       IN /\ fail # None => fail \in to_reshard
          /\ grad' = [m \in Modules |->
                        IF m \in done THEN _finalize_params_grad(self, m) ELSE grad[m]]
          /\ _post_backward_hook_state' = [m \in Modules |->
                        IF m \in done /\ requires_grad[m] THEN FALSE
                        ELSE _post_backward_hook_state[m]]
          /\ _post_backward_called' = [m \in Modules |->
                        IF m \in done /\ requires_grad[m] /\ _sync_gradients[self]
                        THEN FALSE ELSE _post_backward_called[m]]
          /\ _ran_pre_backward_hook' = [m \in Modules |->
                        IF m \in done THEN FALSE ELSE _ran_pre_backward_hook[m]]
          /\ _handles_prefetched' = [m \in Modules |->
                        IF m \in done THEN {} ELSE _handles_prefetched[m]]
          /\ _post_backward_callback_queued' =
                 [_post_backward_callback_queued EXCEPT
                     ![self] = IF \E m \in done : _is_root[m] = "True"
                               THEN FALSE ELSE @]
          /\ rs_unfinalized' = [m \in Modules |->
                        IF m \in done THEN 0 ELSE rs_unfinalized[m]]
          /\ IF fail # None
             THEN \E e \in ReshardErrors :
                    LET x == _catch_all_reshard_except(fail, e) IN
                    /\ Raises([op |-> "_wait_for_post_backward", m |-> self,
                               exc |-> x.exc, resharded |-> {},
                               pre_ran |-> bw.pre_ran, fired |-> bw.fired,
                               failed |-> fail, raised |-> e,
                               printed |-> x.printed], st, 0)
                    /\ bw' = Crashed
             ELSE /\ Commit(st)
                  /\ bw' = IF Len(bw.callbacks) = 1 THEN NoBw
                           ELSE [bw EXCEPT !.callbacks = Tail(@),
                                           !.finalizing = TRUE]
                  /\ last' = [op |-> "_wait_for_post_backward", m |-> self,
                              exc |-> None,
                              resharded |-> to_reshard,
                              pre_ran |-> bw.pre_ran, fired |-> bw.fired]
                  /\ UNCHANGED <<stack, graph>>
    /\ UNCHANGED <<cfgVars, post_backward_stream, nforward, ncalls, rs_log, mb_log>>
    /\ UNCHANGED restFSDP

\* The device completes the oldest reduce-scatter of the post-backward stream
reduce_scatter_completes ==
    /\ post_backward_stream # <<>>
    /\ post_backward_stream' = Tail(post_backward_stream)
    /\ UNCHANGED <<cfgVars, _is_root, training_state, handle_training_state,
                   _sync_gradients, flat_param, grad, _post_backward_hook_state,
                   _post_backward_called, _post_backward_callback_queued,
                   _ran_pre_backward_hook, _handles_prefetched, stack, graph,
                   bw, nforward, ncalls, rs_log, mb_log, rs_unfinalized>>
    /\ last' = NoLast
    /\ UNCHANGED restFSDP

\* The state after construction: every unit sharded and idle, nothing
\* lazily initialised. The wrapping policy gives every unit the same
\* sharding strategy; any of the units may be frozen.
InitFSDP(strategies, offloads, frozen) ==
    /\ \E s \in strategies : sharding_strategy = [m \in Modules |-> s]
    /\ cpu_offload \in offloads
    /\ \E f \in frozen : requires_grad = [m \in Modules |-> m \notin f]
    /\ _is_root = [m \in Modules |-> None]
    /\ training_state = [m \in Modules |-> "IDLE"]
    /\ handle_training_state = [m \in Modules |-> "IDLE"]
    /\ _sync_gradients = [m \in Modules |-> TRUE]
    /\ flat_param = [m \in Modules |-> [data |-> "local_shard", allocated |-> FALSE]]
    /\ grad = [m \in Modules |-> NoGrad]
    /\ _post_backward_hook_state = [m \in Modules |-> FALSE]
    /\ _post_backward_called = [m \in Modules |-> FALSE]
    /\ _post_backward_callback_queued = [m \in Modules |-> FALSE]
    /\ _ran_pre_backward_hook = [m \in Modules |-> FALSE]
    /\ _handles_prefetched = [m \in Modules |-> {}]
    /\ stack = <<>>
    /\ graph = NoGraph
    /\ bw = NoBw
    /\ post_backward_stream = <<>>
    /\ nforward = 0
    /\ ncalls = 0
    /\ rs_log = <<>>
    /\ mb_log = <<>>
    /\ rs_unfinalized = [m \in Modules |-> 0]
    /\ last = NoLast

NextFSDP ==
    \/ \E m \in Modules : check_is_root(m)
    \/ \E m \in Modules : state_dict(m)
    \/ \E m \in Modules : forward_enter(m)
    \/ \E m \in Modules : forward_return(m)
    \/ \E m \in Modules : forward_raise(m)
    \/ \E m \in Modules, recurse \in BOOLEAN : summon_full_params(m, recurse)
    \/ summon_full_params_return
    \/ summon_full_params_raise
    \/ \E m \in Modules : apply_enter(m)
    \/ \E m \in Modules : apply_return(m)
    \/ \E m \in Modules : apply_raise(m)
    \/ \E m \in Modules : no_sync_enter(m)
    \/ no_sync_return
    \/ no_sync_raise
    \/ backward
    \/ \E m \in Modules : _pre_backward_hook(m)
    \/ \E m \in Modules : _post_backward_hook(m)
    \/ \E m \in Modules, fail \in Modules \cup {None} : _wait_for_post_backward(m, fail)
    \/ reduce_scatter_completes

\* The outermost wrapper, which a training loop calls
Outermost == FSDPModules[1]

\* A training loop: forward through the outermost wrapper and backward,
\* under no_sync() or not
NextTrain ==
    \/ \E m \in Modules :
          /\ HasForward(stack) \/ m = Outermost
          /\ forward_enter(m)
    \/ \E m \in Modules : forward_return(m)
    \/ \E m \in Modules : forward_raise(m)
    \/ no_sync_enter(Outermost)
    \/ no_sync_return
    \/ no_sync_raise
    \/ backward
    \/ \E m \in Modules : _pre_backward_hook(m)
    \/ \E m \in Modules : _post_backward_hook(m)
    \/ \E m \in Modules, fail \in Modules \cup {None} : _wait_for_post_backward(m, fail)
    \/ reduce_scatter_completes

(***************************************************************************)
(* fully_shard of torch.distributed._composable.fsdp: the registered form  *)
(* of the managed parameters around construction, forward, backward and    *)
(* the explicit reshard() and unshard()                                    *)
(***************************************************************************)
MaxParamSize == 4      \* parameters have 1..MaxParamSize rows

world_size == 4
post_forward_mesh_size == 2

Root == "model"
SingleGroup == <<"model">>
MultipleGroups == <<"in_proj", "out_proj", "model">>
ReshardAfterForward == {"True", "False", "2"}

Units == SeqToSet(param_groups)

\* model.modules() restricted to the managed ones other than the root
NonRoot == SelectSeq(<<"in_proj", "out_proj">>, LAMBDA m : m \in Units)

\* a tensor whose storage was freed
Freed(t) == narrow(t, 0, 0, 0)

\* distribute_tensor(t, mesh, [Shard(0)]): every rank's local shard
distribute_tensor(t, n) ==
    LET r == Shard_split_tensor(Shard(0), t, n) IN
    [k \in 1..n |-> unpad_tensor(r.shards[k], 0, r.pad_sizes[k])]

\* DTensor.full_tensor() of a parameter sharded on dim 0
full_tensor(locals, _orig_size) ==
    Shard_to_replicate_tensor(Shard(0), locals, Len(locals), _orig_size)

\* a parameter fully_shard has not been applied to: a plain tensor
PlainParam(t) ==
    [sharded_state |-> "NONE", _orig_size |-> t.shape, _sharded_param |-> <<>>,
     _sharded_post_forward_param |-> <<>>, _unsharded_param |-> t]

\* FSDPParam.__init__: the parameter is sharded over the mesh and registered
\* as a DTensor
FSDPParam_init(p) ==
    [p EXCEPT !.sharded_state = "SHARDED",
              !._sharded_param = distribute_tensor(p._unsharded_param, world_size),
              !._unsharded_param = Freed(@)]

\* FSDPParam.to_sharded
to_sharded(p) ==
    [p EXCEPT !.sharded_state = "SHARDED",
              !._sharded_post_forward_param = <<>>,
              !._unsharded_param = Freed(@)]

\* FSDPParam.to_sharded_post_forward: the unsharded parameter is sharded over
\* the post-forward mesh
to_sharded_post_forward(p) ==
    [p EXCEPT !.sharded_state = "SHARDED_POST_FORWARD",
              !._sharded_post_forward_param =
                  distribute_tensor(p._unsharded_param, post_forward_mesh_size),
              !._unsharded_param = Freed(@)]

\* FSDPParamGroup.unshard: all-gather of the registered shards, unless the
\* parameter is unsharded already
unshard(p) ==
    IF p.sharded_state = "UNSHARDED" THEN p
    ELSE [p EXCEPT !.sharded_state = "UNSHARDED",
                   !._sharded_post_forward_param = <<>>,
                   !._unsharded_param =
                       IF p.sharded_state = "SHARDED"
                       THEN full_tensor(p._sharded_param, p._orig_size)
                       ELSE full_tensor(p._sharded_post_forward_param, p._orig_size)]

\* FSDPParamGroup._to_sharded
_to_sharded(p) == IF p.sharded_state = "SHARDED" THEN p ELSE to_sharded(p)

\* post-forward resharding of every unit, the root included
reshards_after_forward_root_too(m) == fsdp2_reshard_after_forward # "False"

\* whether a unit reshards in post-forward: the root keeps its parameters
\* for the backward that follows
reshards_after_forward(m) == m # Root /\ fsdp2_reshard_after_forward # "False"

\* isinstance(param, DTensor) of the registered parameter
is_dtensor(m) == fsdp_param[m].sharded_state \in {"SHARDED", "SHARDED_POST_FORWARD"}

\* the registered parameter's value as _assert_same_params reads it
param_value(m) ==
    LET p == fsdp_param[m] IN
    IF p.sharded_state = "SHARDED" THEN full_tensor(p._sharded_param, p._orig_size)
    ELSE IF p.sharded_state = "SHARDED_POST_FORWARD"
    THEN full_tensor(p._sharded_post_forward_param, p._orig_size)
    ELSE p._unsharded_param

Step(op, m) == [op |-> op, m |-> m]
Event(l, resharded, output) == [last |-> l, resharded |-> resharded, output |-> output]

RECURSIVE Hooks(_, _, _)
\* the hooks op1 and op2 of each module of ms in turn
Hooks(ms, op1, op2) ==
    IF ms = <<>> THEN <<>>
    ELSE <<Step(op1, Head(ms)), Step(op2, Head(ms))>> \o Hooks(Tail(ms), op1, op2)

Reversed(s) == [i \in 1..Len(s) |-> s[Len(s) + 1 - i]]

InitFullyShard ==
    /\ param_groups \in {SingleGroup, MultipleGroups}
    /\ fsdp2_reshard_after_forward \in ReshardAfterForward
    /\ ref_model \in [Units -> {arange_view(n, 1) : n \in 1..MaxParamSize}]
    /\ fsdp_param = [m \in Units |-> PlainParam(ref_model[m])]
    /\ schedule = [i \in 1..Len(param_groups) |-> Step("fully_shard", param_groups[i])]
    /\ event = Event(None, {}, FALSE)

\* the next hook or call of the running construction or pass
Next2(op, m) == schedule # <<>> /\ Head(schedule) = Step(op, m)

\* schedule' and event' after a step that ends the pass as l, if it ends it
Advance(l, output) ==
    /\ schedule' = Tail(schedule)
    /\ event' = IF Tail(schedule) = <<>> THEN Event(l, {}, output) ELSE event

\* fully_shard(module, reshard_after_forward=...)
fully_shard(m) ==
    /\ Next2("fully_shard", m)
    /\ fsdp_param' = [fsdp_param EXCEPT ![m] = FSDPParam_init(@)]
    /\ Advance("fully_shard", FALSE)
    /\ UNCHANGED <<param_groups, fsdp2_reshard_after_forward, ref_model>>
    /\ UNCHANGED restFSDP2

\* model(inp): the root's pre-forward, the nested units' forwards in module
\* order, the root's post-forward
model_call ==
    /\ schedule = <<>>
    /\ schedule' = <<Step("pre_forward", Root)>>
                      \o Hooks(NonRoot, "pre_forward", "post_forward")
                      \o <<Step("post_forward", Root)>>
    /\ event' = Event(None, {}, FALSE)
    /\ UNCHANGED <<param_groups, fsdp2_reshard_after_forward, ref_model, fsdp_param>>
    /\ UNCHANGED restFSDP2

\* FSDPParamGroup.pre_forward
pre_forward(m) ==
    /\ Next2("pre_forward", m)
    /\ fsdp_param' = [fsdp_param EXCEPT ![m] = unshard(@)]
    /\ Advance("forward", TRUE)
    /\ UNCHANGED <<param_groups, fsdp2_reshard_after_forward, ref_model>>
    /\ UNCHANGED restFSDP2

\* FSDPParamGroup.post_forward
post_forward(m) ==
    /\ Next2("post_forward", m)
    /\ fsdp_param' =
          [fsdp_param EXCEPT ![m] =
              IF ~reshards_after_forward(m) THEN @
              ELSE IF fsdp2_reshard_after_forward = "2"
              THEN to_sharded_post_forward(@)
              ELSE _to_sharded(@)]
    /\ Advance("forward", TRUE)
    /\ UNCHANGED <<param_groups, fsdp2_reshard_after_forward, ref_model>>
    /\ UNCHANGED restFSDP2

\* model(inp).sum().backward(): the units' backwards in the reverse of the
\* forward order, then the root's final callback
backward_call ==
    /\ schedule = <<>>
    /\ event.output
    /\ schedule' = <<Step("pre_backward", Root)>>
                      \o Hooks(Reversed(NonRoot), "pre_backward", "post_backward")
                      \o <<Step("post_backward", Root),
                           Step("_root_post_backward_final_callback", Root)>>
    /\ event' = Event(None, {}, FALSE)
    /\ UNCHANGED <<param_groups, fsdp2_reshard_after_forward, ref_model, fsdp_param>>
    /\ UNCHANGED restFSDP2

\* FSDPParamGroup.pre_backward
pre_backward(m) ==
    /\ Next2("pre_backward", m)
    /\ fsdp_param' = [fsdp_param EXCEPT ![m] = unshard(@)]
    /\ Advance("backward", FALSE)
    /\ UNCHANGED <<param_groups, fsdp2_reshard_after_forward, ref_model>>
    /\ UNCHANGED restFSDP2

\* FSDPParamGroup.post_backward, which autograd calls only if the unit's
\* inputs required gradient
post_backward(m) ==
    /\ Next2("post_backward", m)
    /\ \E fires \in BOOLEAN :
          fsdp_param' = [fsdp_param EXCEPT ![m] = IF fires THEN _to_sharded(@) ELSE @]
    /\ Advance("backward", FALSE)
    /\ UNCHANGED <<param_groups, fsdp2_reshard_after_forward, ref_model>>
    /\ UNCHANGED restFSDP2

\* FSDPState._root_post_backward_final_callback: post_backward of every unit
\* whose own has not run
_root_post_backward_final_callback ==
    /\ Next2("_root_post_backward_final_callback", Root)
    /\ fsdp_param' = [m \in Units |-> _to_sharded(fsdp_param[m])]
    /\ Advance("backward", FALSE)
    /\ UNCHANGED <<param_groups, fsdp2_reshard_after_forward, ref_model>>
    /\ UNCHANGED restFSDP2

\* FSDPModule.reshard()
FSDPModule_reshard(m) ==
    /\ schedule = <<>>
    /\ fsdp_param' = [fsdp_param EXCEPT ![m] = _to_sharded(@)]
    /\ event' = Event("reshard",
                      (IF event.last = "reshard" THEN event.resharded ELSE {}) \cup {m},
                      event.output)
    /\ UNCHANGED <<param_groups, fsdp2_reshard_after_forward, ref_model, schedule>>
    /\ UNCHANGED restFSDP2

\* FSDPModule.unshard()
FSDPModule_unshard(m) ==
    /\ schedule = <<>>
    /\ fsdp_param' = [fsdp_param EXCEPT ![m] = unshard(@)]
    /\ event' = Event("unshard", {}, event.output)
    /\ UNCHANGED <<param_groups, fsdp2_reshard_after_forward, ref_model, schedule>>
    /\ UNCHANGED restFSDP2

NextFullyShard ==
    \/ \E m \in Units : fully_shard(m)
    \/ model_call
    \/ \E m \in Units : pre_forward(m)
    \/ \E m \in Units : post_forward(m)
    \/ backward_call
    \/ \E m \in Units : pre_backward(m)
    \/ \E m \in Units : post_backward(m)
    \/ _root_post_backward_final_callback
    \/ \E m \in Units : FSDPModule_reshard(m)
    \/ \E m \in Units : FSDPModule_unshard(m)

IdleFSDP2 ==
    /\ param_groups = <<>>
    /\ fsdp2_reshard_after_forward = None
    /\ ref_model = <<>>
    /\ fsdp_param = <<>>
    /\ schedule = <<>>
    /\ event = <<>>

IdleFSDP ==
    /\ sharding_strategy = <<>> /\ cpu_offload = FALSE /\ requires_grad = <<>>
    /\ _is_root = <<>> /\ training_state = <<>> /\ handle_training_state = <<>>
    /\ _sync_gradients = <<>> /\ flat_param = <<>> /\ grad = <<>>
    /\ _post_backward_hook_state = <<>> /\ _post_backward_called = <<>>
    /\ _post_backward_callback_queued = <<>> /\ _ran_pre_backward_hook = <<>>
    /\ _handles_prefetched = <<>>
    /\ stack = <<>> /\ graph = <<>> /\ bw = <<>> /\ post_backward_stream = <<>>
    /\ nforward = 0 /\ ncalls = 0 /\ rs_log = <<>> /\ mb_log = <<>>
    /\ rs_unfinalized = <<>> /\ last = <<>>

(***************************************************************************)
(* ShardingPropagator: _wrap_output_spec_tensor_meta and _select_strategy  *)
(* called on any arguments                                                 *)
(***************************************************************************)
MaxOutputs == 2        \* most entries of an output spec or of the traced metas
MaxCandidates == 3     \* most candidates of an OpStrategy
MaxCost == 1           \* largest redistribute cost of one argument

\* The TensorMeta traced for output i
MetaNames == <<"meta_0", "meta_1", "meta_2", "meta_3">>

\* output_spec arguments: None, one DTensorSpec, or a tuple whose entries
\* are any DTensorSpec objects, distinct or the same
OutputSpecs ==
    {NoSpec} \cup {SingleSpec(p) : p \in {"R", "S0"}}
    \cup UNION {{TupleSpec([i \in 1..n |-> DTensorSpec("R")], refs) :
                    refs \in [1..n -> 1..n]} : n \in 0..MaxOutputs}

\* output_tensor_meta arguments: None, one TensorMeta, or a tuple of them
OutputTensorMetas ==
    {[kind |-> "none", metas |-> <<>>], [kind |-> "single", metas |-> <<MetaNames[1]>>]}
    \cup {[kind |-> "tuple", metas |-> [i \in 1..n |-> MetaNames[i]]] :
            n \in 0..MaxOutputs}

\* redistribute_cost of a candidate over two arguments, or None
RedistributeCosts ==
    {NoneOpt} \cup {Some(<< <<a>>, <<b>> >>) : a, b \in 0..MaxCost}

\* OpStrategy arguments; candidate i has the output spec i
OpStrategies ==
    UNION {{[kind |-> "OpStrategy",
             strategies |-> [i \in 1..n |-> PlacementStrategy(i, NoneOpt, c[i])]] :
                c \in [1..n -> RedistributeCosts]} : n \in 1..MaxCandidates}

NotCalled == [done |-> FALSE]

InitCall ==
    /\ fn_call \in
          {[fn |-> "_wrap_output_spec_tensor_meta", output_spec |-> s,
            output_tensor_meta |-> t] : s \in OutputSpecs, t \in OutputTensorMetas}
          \cup {[fn |-> "_select_strategy", strategy |-> st] : st \in OpStrategies}
    /\ fn_result = NotCalled

\* self._wrap_output_spec_tensor_meta(op, output_spec, output_tensor_meta)
call_wrap_output_spec_tensor_meta ==
    /\ fn_call.fn = "_wrap_output_spec_tensor_meta"
    /\ ~fn_result.done
    /\ LET r == _wrap_output_spec_tensor_meta(fn_call.output_spec,
                                              fn_call.output_tensor_meta)
       IN  fn_result' = [done |-> TRUE, exc |-> r.exc, output_spec |-> r.spec]
    /\ UNCHANGED fn_call
    /\ UNCHANGED restCall

\* self._select_strategy(strategy)
call_select_strategy ==
    /\ fn_call.fn = "_select_strategy"
    /\ ~fn_result.done
    /\ LET r == _select_strategy(fn_call.strategy)
       IN  fn_result' = [done |-> TRUE, exc |-> r.exc, val |-> r.val]
    /\ UNCHANGED fn_call
    /\ UNCHANGED restCall

NextCall ==
    \/ call_wrap_output_spec_tensor_meta
    \/ call_select_strategy

IdleCall == fn_call = <<>> /\ fn_result = <<>>

(***************************************************************************)
(* The composable fully_shard                                              *)
(* (torch/distributed/_composable/fully_shard.py)                          *)
(***************************************************************************)
MaxChildren == 3       \* the root module has 1..MaxChildren child modules

\* The module tree: module 0 is the root, 1..MaxChildren are its children;
\* every module holds one parameter of its own.
TreeModules == 0..MaxChildren
Children(module) == IF module = 0 THEN 1..MaxChildren ELSE {}
Subtree(module) == {module} \cup Children(module)
NoModule == 0 - 1

\* The policy argument: None, an _FSDPPolicy (given by the child modules it
\* decides to wrap), or a value of another type (a callable, a set of
\* module classes)
NoPolicy == [kind |-> "None", wrap |-> {}]
FSDPPolicies == {[kind |-> "_FSDPPolicy", wrap |-> w] : w \in SUBSET (1..MaxChildren)}
OtherPolicies == {[kind |-> "callable", wrap |-> {}], [kind |-> "set", wrap |-> {}]}
PolicyArgs == {NoPolicy} \cup FSDPPolicies \cup OtherPolicies

StateDictHooks == {"state_dict_pre", "state_dict_post", "load_state_dict_pre",
                   "load_state_dict_post"}
ForwardHooks == {"pre_forward", "post_forward", "root_pre_forward"}

\* The modules whose parameters some handle has flattened
Managed(handles) == UNION {handles[u] : u \in TreeModules}

\* a policy of any type accepted
policy_rejected_never(policy) == FALSE

\* Lines 65-66: policy is not None and not isinstance(policy, _FSDPPolicy)
policy_rejected(policy) == policy.kind # "None" /\ policy.kind # "_FSDPPolicy"

\* _auto_wrap(module, policy, ...): the submodules the policy selects that
\* have no state yet; fully_shard is applied to each without a policy.  A
\* value that is no _FSDPPolicy selects nothing.
AutoWrapTargets(module, policy) ==
    {c \in Children(module) \cap policy.wrap :
        _module_state[c] = NoModule /\ c \notin Managed(_fully_sharded_module_to_handles)}

InitComposable ==
    /\ _module_state = [m \in TreeModules |-> NoModule]
    /\ _fully_sharded_module_to_handles = [m \in TreeModules |-> {}]
    /\ _forward_hooks = [m \in TreeModules |-> {}]
    /\ fully_shard_last = [module |-> NoModule, policy |-> NoPolicy, exc |-> None]

\* fully_shard(module, policy=policy), the whole call.  The policy check
\* comes first; then the state is obtained and initialised, the policy's
\* submodules are wrapped, the remaining parameters of the subtree are
\* flattened into the module's handle, the hooks are registered and the
\* state is inserted.
composable_fully_shard(module, policy) ==
    /\ _module_state[module] = NoModule
    /\ module \notin Managed(_fully_sharded_module_to_handles)
    /\ IF policy_rejected(policy)
       THEN /\ fully_shard_last' = [module |-> module, policy |-> policy,
                                    exc |-> "ValueError"]
            /\ UNCHANGED <<_module_state, _fully_sharded_module_to_handles,
                           _forward_hooks>>
       ELSE LET wrapped == IF policy.kind # "None"
                           THEN AutoWrapTargets(module, policy) ELSE {}
                units == wrapped \cup {module}
                managed == Managed(_fully_sharded_module_to_handles)
            IN  /\ _fully_sharded_module_to_handles' =
                       [m \in TreeModules |->
                           IF m \in wrapped THEN {m}
                           ELSE IF m = module
                           THEN (Subtree(module) \ managed) \ wrapped
                           ELSE _fully_sharded_module_to_handles[m]]
                /\ _forward_hooks' =
                       [m \in TreeModules |->
                           IF m \in units
                           THEN _forward_hooks[m] \cup StateDictHooks \cup ForwardHooks
                           ELSE _forward_hooks[m]]
                /\ _module_state' =
                       [m \in TreeModules |-> IF m \in units THEN m ELSE _module_state[m]]
                /\ fully_shard_last' = [module |-> module, policy |-> policy,
                                        exc |-> None]
    /\ UNCHANGED restComposable

NextComposable ==
    \E module \in TreeModules, policy \in PolicyArgs :
        composable_fully_shard(module, policy)

IdleComposable ==
    /\ _module_state = <<>>
    /\ _fully_sharded_module_to_handles = <<>>
    /\ _forward_hooks = <<>>
    /\ fully_shard_last = <<>>

(***************************************************************************)
(* EtcdStore.add                                                           *)
(* (torch/distributed/elastic/rendezvous/etcd_rendezvous.py)               *)
(***************************************************************************)
MaxAdders == 3         \* concurrent add calls on the key
MaxNum == 2            \* the num arguments range over -1 and 1..MaxNum
MaxInitial == 9        \* the value of a key that exists before the calls

Adders == 1..MaxAdders
AddNums == {0 - 1} \cup 1..MaxNum

RECURSIVE Digits(_)
Digits(n) == IF n < 10 THEN <<n>> ELSE Digits(n \div 10) \o <<n % 10>>

\* str(n): the base-10 string of an integer, a sign and its digits
Str(n) == IF n < 0 THEN [neg |-> TRUE, digits |-> Digits(0 - n)]
          ELSE [neg |-> FALSE, digits |-> Digits(n)]

RECURSIVE DigitsValue(_)
DigitsValue(ds) ==
    IF ds = <<>> THEN 0 ELSE 10 * DigitsValue(SubSeq(ds, 1, Len(ds) - 1)) + ds[Len(ds)]

\* int(s)
Int_(s) == IF s.neg THEN 0 - DigitsValue(s.digits) ELSE DigitsValue(s.digits)

\* _encode / _decode: the base64 text of a string, and back
_encode(s) == [b64 |-> s]
_decode(v) == v.b64

AbsentNode == [exists |-> FALSE, value |-> _encode(Str(0))]
Node(v) == [exists |-> TRUE, value |-> v]

NotReturned == [done |-> FALSE, written |-> _encode(Str(0)), result |-> 0]

InitStore ==
    /\ store_initial \in {AbsentNode, Node(_encode(Str(0))), Node(_encode(Str(MaxInitial)))}
    /\ store_node = store_initial
    /\ add_num \in [Adders -> AddNums]
    /\ add_pc = [a \in Adders |-> "write"]
    /\ add_node = [a \in Adders |-> _encode(Str(0))]
    /\ add_returned = [a \in Adders |-> NotReturned]

\* the sum is dropped: the new value is num itself
new_value_overwrite(node_value, num) == _encode(Str(num))

\* Line 1058: new_value = self._encode(str(int(self._decode(node.value)) + num))
new_value(node_value, num) == _encode(Str(Int_(_decode(node_value)) + num))

\* Lines 1043-1052: client.write(key, str(num), prevExist=False); on
\* EtcdAlreadyExist the call goes on to the loop.
add_write(a) ==
    /\ add_pc[a] = "write"
    /\ IF ~store_node.exists
       THEN /\ store_node' = Node(_encode(Str(add_num[a])))
            /\ add_returned' = [add_returned EXCEPT ![a] =
                                   [done |-> TRUE, written |-> store_node'.value,
                                    result |-> Int_(_decode(store_node'.value))]]
            /\ add_pc' = [add_pc EXCEPT ![a] = "returned"]
       ELSE /\ add_pc' = [add_pc EXCEPT ![a] = "get"]
            /\ UNCHANGED <<store_node, add_returned>>
    /\ UNCHANGED <<store_initial, add_num, add_node>>
    /\ UNCHANGED restStore

\* Line 1057: node = self.client.get(key)
add_get(a) ==
    /\ add_pc[a] = "get"
    /\ add_node' = [add_node EXCEPT ![a] = store_node.value]
    /\ add_pc' = [add_pc EXCEPT ![a] = "test_and_set"]
    /\ UNCHANGED <<store_initial, store_node, add_num, add_returned>>
    /\ UNCHANGED restStore

\* Lines 1059-1065: client.test_and_set(key, new_value, prev_value=node.value);
\* etcd compares the stored value with prev_value; on EtcdCompareFailed the
\* loop starts over.
add_test_and_set(a) ==
    /\ add_pc[a] = "test_and_set"
    /\ IF store_node.value = add_node[a]
       THEN /\ store_node' = Node(new_value(add_node[a], add_num[a]))
            /\ add_returned' = [add_returned EXCEPT ![a] =
                                   [done |-> TRUE, written |-> store_node'.value,
                                    result |-> Int_(_decode(store_node'.value))]]
            /\ add_pc' = [add_pc EXCEPT ![a] = "returned"]
       ELSE /\ add_pc' = [add_pc EXCEPT ![a] = "get"]
            /\ UNCHANGED <<store_node, add_returned>>
    /\ UNCHANGED <<store_initial, add_num, add_node>>
    /\ UNCHANGED restStore

NextStore ==
    \/ \E a \in Adders : add_write(a)
    \/ \E a \in Adders : add_get(a)
    \/ \E a \in Adders : add_test_and_set(a)

IdleStore ==
    /\ store_initial = <<>> /\ store_node = <<>> /\ add_num = <<>> /\ add_pc = <<>> /\ add_node = <<>>
    /\ add_returned = <<>>

(***************************************************************************)
(* EtcdRendezvous: rendezvous_barrier and set_closed                       *)
(* (torch/distributed/elastic/rendezvous/etcd_rendezvous.py)               *)
(*                                                                         *)
(* One action per etcd request of a worker; etcd serialises the requests.  *)
(* A test_and_set or compare-and-delete succeeds when the key exists and   *)
(* holds the value the worker read; a write without ttl leaves the key     *)
(* permanent.  Keys with a TTL may expire at any time.                     *)
(***************************************************************************)
MaxVersion == 2        \* rendezvous versions that may be created
MaxRdzvCalls == 3      \* rendezvous_barrier and set_closed calls in total
MaxWaiting == 2        \* largest num_workers_waiting announced

num_min_workers == 1
num_max_workers == 2

\* The workers of the run_id
Workers == {1, 2}

\* json.dumps(state): the value of /rdzv/active_version.  keep_alives holds
\* the ranks whose lease keys are listed; participants is the length of the
\* list [0, 1, ...].
RdzvState(status, version, participants, keep_alives, num_workers_waiting) ==
    [status |-> status, version |-> version, participants |-> participants,
     keep_alives |-> keep_alives, num_workers_waiting |-> num_workers_waiting]

SetupState == RdzvState("setup", 0, 0, {}, 0)

NoKey == [exists |-> FALSE, ttl |-> FALSE, value |-> SetupState]
Key(value, ttl) == [exists |-> TRUE, ttl |-> ttl, value |-> value]

NoLocal == [value |-> SetupState, expected_version |-> 0, this_rank |-> 0]

InitRdzv ==
    /\ active_version = NoKey
    /\ version_counter = 0
    /\ keep_alive_keys = {}
    /\ rdzv_pc = [w \in Workers |-> "idle"]
    /\ rdzv_local = [w \in Workers |-> NoLocal]
    /\ rdzv_result = [w \in Workers |-> None]
    /\ rdzv_calls = 0
    /\ rdzv_returned = {}

\* The worker's position and locals change; nothing in etcd does.
Goto(w, pc, local) ==
    /\ rdzv_pc' = [rdzv_pc EXCEPT ![w] = pc]
    /\ rdzv_local' = [rdzv_local EXCEPT ![w] = local]
    /\ UNCHANGED <<active_version, version_counter, keep_alive_keys, rdzv_result,
                   rdzv_calls, rdzv_returned>>

\* An exception that rendezvous_barrier answers with another attempt
\* (lines 288-295 and 310-316).
Retry(w) == Goto(w, "barrier", NoLocal)

\* The call ends, by return or by an exception that leaves it.
Leave(w, result) ==
    /\ rdzv_pc' = [rdzv_pc EXCEPT ![w] = "idle"]
    /\ rdzv_local' = [rdzv_local EXCEPT ![w] = NoLocal]
    /\ rdzv_result' = [rdzv_result EXCEPT ![w] = result]
    /\ UNCHANGED <<active_version, version_counter, keep_alive_keys, rdzv_calls, rdzv_returned>>

\* rendezvous_barrier returns (rdzv_version, rank, world_size) (lines 283-286)
Return(w, rdzv_version, rank, size) ==
    /\ rdzv_pc' = [rdzv_pc EXCEPT ![w] = "idle"]
    /\ rdzv_local' = [rdzv_local EXCEPT ![w] = NoLocal]
    /\ rdzv_result' = [rdzv_result EXCEPT ![w] = "joined"]
    /\ rdzv_returned' = rdzv_returned \cup
                           {[worker |-> w, rdzv_version |-> rdzv_version,
                             rank |-> rank, world_size |-> size]}
    /\ UNCHANGED <<active_version, version_counter, keep_alive_keys, rdzv_calls>>

\* a compare that succeeds whatever value the key holds
CompareOk_always(w) == active_version.exists

\* The compare of test_and_set(prev_value=...) and delete(prevValue=...)
CompareOk(w) ==
    active_version.exists /\ active_version.value = rdzv_local[w].value

\* A successful test_and_set by worker w, which goes on at pc.
Swap(w, value, ttl, pc, local) ==
    /\ active_version' = Key(value, ttl)
    /\ rdzv_pc' = [rdzv_pc EXCEPT ![w] = pc]
    /\ rdzv_local' = [rdzv_local EXCEPT ![w] = local]
    /\ UNCHANGED <<version_counter, keep_alive_keys, rdzv_result, rdzv_calls, rdzv_returned>>

\* a closed rendezvous taken for a transitional state
observed_closed_never(state) == FALSE

\* init_phase, lines 347-348
observed_closed(state) == state.status = "closed"

\* A worker calls rendezvous_barrier (lines 275-280).
rendezvous_barrier(w) ==
    /\ rdzv_pc[w] = "idle"
    /\ rdzv_calls < MaxRdzvCalls
    /\ rdzv_calls' = rdzv_calls + 1
    /\ rdzv_pc' = [rdzv_pc EXCEPT ![w] = "barrier"]
    /\ rdzv_result' = [rdzv_result EXCEPT ![w] = None]
    /\ UNCHANGED <<active_version, version_counter, keep_alive_keys, rdzv_local,
                   rdzv_returned>>
    /\ UNCHANGED restRdzv

\* The deadline has passed at the head of the loop (277-278), or in a wait
\* for a state change (741-742, 860-861).
RendezvousTimeout(w) ==
    /\ rdzv_pc[w] \in {"barrier", "peers_get", "final_get", "free_get",
                       "last_call_get"}
    /\ Leave(w, "RendezvousTimeoutError")
    /\ UNCHANGED restRdzv

\* try_create_rendezvous, the prevExist=False write of {"status": "setup"}
\* (458-463); EtcdAlreadyExist sends init_phase to get_rdzv_state (341-342).
try_create_rendezvous(w) ==
    /\ rdzv_pc[w] = "barrier"
    /\ IF active_version.exists
       THEN Goto(w, "init_get", NoLocal)
       ELSE /\ version_counter < MaxVersion
            /\ active_version' = Key(SetupState, TRUE)
            /\ rdzv_pc' = [rdzv_pc EXCEPT ![w] = "publish"]
            /\ rdzv_local' = [rdzv_local EXCEPT ![w] = NoLocal]
            /\ UNCHANGED <<version_counter, keep_alive_keys, rdzv_result,
                           rdzv_calls, rdzv_returned>>
    /\ UNCHANGED restRdzv

\* try_create_rendezvous, lines 465-499: the version counter is incremented,
\* the participant directory made, and "joinable" published by test_and_set
\* against the setup value; init_phase then enters join_phase (350-351).
publish_rendezvous(w) ==
    /\ rdzv_pc[w] = "publish"
    /\ version_counter' = version_counter + 1
    /\ IF CompareOk(w)
       THEN /\ active_version' =
                   Key(RdzvState("joinable", version_counter', 0, {}, 0), FALSE)
            /\ keep_alive_keys' = {}
            /\ rdzv_pc' = [rdzv_pc EXCEPT ![w] = "join_get"]
            /\ rdzv_local' = [rdzv_local EXCEPT ![w] =
                                 [NoLocal EXCEPT !.expected_version = version_counter']]
       ELSE /\ rdzv_pc' = [rdzv_pc EXCEPT ![w] = "barrier"]
            /\ rdzv_local' = [rdzv_local EXCEPT ![w] = NoLocal]
            /\ UNCHANGED <<active_version, keep_alive_keys>>
    /\ UNCHANGED <<rdzv_result, rdzv_calls, rdzv_returned>>
    /\ UNCHANGED restRdzv

\* init_phase after EtcdAlreadyExist: get_rdzv_state and the dispatch on
\* the status (342-358).
init_phase(w) ==
    /\ rdzv_pc[w] = "init_get"
    /\ LET state == active_version.value IN
       IF ~active_version.exists THEN Retry(w)
       ELSE IF observed_closed(state) THEN Leave(w, "RendezvousClosedError")
       ELSE IF state.status = "joinable"
       THEN Goto(w, "join_get", [NoLocal EXCEPT !.expected_version = state.version])
       ELSE IF state.status = "final"
       THEN Goto(w, "announce_get",
                 [NoLocal EXCEPT !.expected_version = state.version])
       ELSE Retry(w)
    /\ UNCHANGED restRdzv

\* join_rendezvous, the read and the checks (509-537)
join_rendezvous_get(w) ==
    /\ rdzv_pc[w] = "join_get"
    /\ LET state == active_version.value IN
       IF \/ ~active_version.exists
          \/ state.status # "joinable"
          \/ state.version # rdzv_local[w].expected_version
       THEN Retry(w)
       ELSE IF ~(state.participants < num_max_workers)
       THEN Leave(w, "AssertionError")
       ELSE Goto(w, "join_cas", [rdzv_local[w] EXCEPT !.value = state])
    /\ UNCHANGED restRdzv

\* a join that never freezes the rendezvous
join_freezes_never(n) == FALSE

\* whether the join that makes n participants freezes the rendezvous (531)
join_freezes(n) == n = num_max_workers

\* join_rendezvous, the compare-and-swap (539-551), and join_phase's choice
\* of the worker that handles the last call (384-392)
join_rendezvous_cas(w) ==
    /\ rdzv_pc[w] = "join_cas"
    /\ LET state == rdzv_local[w].value
           this_rank == state.participants
           n == state.participants + 1
           joined == IF join_freezes(n)
                     THEN [state EXCEPT !.participants = n, !.status = "frozen",
                                        !.keep_alives = {}]
                     ELSE [state EXCEPT !.participants = n]
           set_ttl == n >= num_min_workers
           local == [rdzv_local[w] EXCEPT !.this_rank = this_rank, !.value = joined]
       IN  IF ~active_version.exists THEN Retry(w)
           ELSE IF ~CompareOk(w) THEN Goto(w, "join_get", rdzv_local[w])
           ELSE Swap(w, joined, set_ttl,
                     IF this_rank = num_min_workers - 1 /\ joined.status = "joinable"
                     THEN "last_call_get" ELSE "peers_get",
                     local)
    /\ UNCHANGED restRdzv

\* handle_join_last_call, the read and the checks (762-772, 790, 816)
handle_join_last_call_get(w) ==
    /\ rdzv_pc[w] = "last_call_get"
    /\ LET state == active_version.value IN
       IF ~active_version.exists THEN Retry(w)
       ELSE IF state.version # rdzv_local[w].expected_version THEN Retry(w)
       ELSE IF state.status = "frozen" THEN Goto(w, "peers_get", rdzv_local[w])
       ELSE IF state.status # "joinable" THEN Retry(w)
       ELSE Goto(w, "last_call_cas", [rdzv_local[w] EXCEPT !.value = state])
    /\ UNCHANGED restRdzv

\* handle_join_last_call at the deadline: joinable -> frozen (775-791)
handle_join_last_call_freeze(w) ==
    /\ rdzv_pc[w] = "last_call_cas"
    /\ IF ~active_version.exists THEN Retry(w)
       ELSE IF ~CompareOk(w) THEN Goto(w, "last_call_get", rdzv_local[w])
       ELSE Swap(w, [rdzv_local[w].value EXCEPT !.status = "frozen",
                                               !.keep_alives = {}],
                 TRUE, "peers_get", rdzv_local[w])
    /\ UNCHANGED restRdzv

\* handle_join_last_call before the deadline: the TTL refresh by a
\* test_and_set of the same value (797-816)
handle_join_last_call_refresh(w) ==
    /\ rdzv_pc[w] = "last_call_cas"
    /\ IF ~active_version.exists THEN Retry(w)
       ELSE IF ~CompareOk(w) THEN Goto(w, "last_call_get", rdzv_local[w])
       ELSE Swap(w, rdzv_local[w].value, TRUE, "last_call_get", rdzv_local[w])
    /\ UNCHANGED restRdzv

\* wait_for_peers (557-573); waiting on a joinable state changes nothing
wait_for_peers(w) ==
    /\ rdzv_pc[w] = "peers_get"
    /\ LET state == active_version.value IN
       IF ~active_version.exists THEN Retry(w)
       ELSE IF state.version # rdzv_local[w].expected_version THEN Retry(w)
       ELSE IF state.status = "frozen" THEN Goto(w, "confirm_get", rdzv_local[w])
       ELSE state.status # "joinable" /\ Retry(w)
    /\ UNCHANGED restRdzv

\* confirm_membership, the read, the checks and the lease key (583-600)
confirm_membership_get(w) ==
    /\ rdzv_pc[w] = "confirm_get"
    /\ LET state == active_version.value IN
       IF \/ ~active_version.exists
          \/ state.status # "frozen"
          \/ state.version # rdzv_local[w].expected_version
       THEN Retry(w)
       ELSE /\ keep_alive_keys' = keep_alive_keys \cup {rdzv_local[w].this_rank}
            /\ rdzv_pc' = [rdzv_pc EXCEPT ![w] = "confirm_cas"]
            /\ rdzv_local' = [rdzv_local EXCEPT ![w].value = state]
            /\ UNCHANGED <<active_version, version_counter, rdzv_result, rdzv_calls, rdzv_returned>>
    /\ UNCHANGED restRdzv

\* confirm_membership, the compare-and-swap (601-624)
confirm_membership_cas(w) ==
    /\ rdzv_pc[w] = "confirm_cas"
    /\ LET state == rdzv_local[w].value
           keep_alives == state.keep_alives \cup {rdzv_local[w].this_rank}
           finalize == Cardinality(keep_alives) = state.participants
           confirmed == IF finalize
                        THEN [state EXCEPT !.keep_alives = keep_alives,
                                           !.status = "final",
                                           !.num_workers_waiting = 0]
                        ELSE [state EXCEPT !.keep_alives = keep_alives]
       IN  IF ~active_version.exists THEN Retry(w)
           ELSE IF ~CompareOk(w) THEN Goto(w, "confirm_get", rdzv_local[w])
           ELSE Swap(w, confirmed, ~finalize, "final_get", rdzv_local[w])
    /\ UNCHANGED restRdzv

\* wait_for_final (630-646) and the return of confirm_phase (413-423):
\* state["version"], this_rank, len(state["participants"])
wait_for_final(w) ==
    /\ rdzv_pc[w] = "final_get"
    /\ LET state == active_version.value IN
       IF ~active_version.exists THEN Retry(w)
       ELSE IF state.version # rdzv_local[w].expected_version THEN Retry(w)
       ELSE IF state.status = "final"
       THEN Return(w, state.version, rdzv_local[w].this_rank, state.participants)
       ELSE state.status # "frozen" /\ Retry(w)
    /\ UNCHANGED restRdzv

\* announce_self_waiting, the read and the checks (656-662)
announce_self_waiting_get(w) ==
    /\ rdzv_pc[w] = "announce_get"
    /\ LET state == active_version.value IN
       IF \/ ~active_version.exists
          \/ state.status # "final"
          \/ state.version # rdzv_local[w].expected_version
       THEN Retry(w)
       ELSE Goto(w, "announce_cas", [rdzv_local[w] EXCEPT !.value = state])
    /\ UNCHANGED restRdzv

\* announce_self_waiting, the compare-and-swap (664-673)
announce_self_waiting_cas(w) ==
    /\ rdzv_pc[w] = "announce_cas"
    /\ IF ~active_version.exists THEN Retry(w)
       ELSE IF ~CompareOk(w) THEN Goto(w, "announce_get", rdzv_local[w])
       ELSE /\ rdzv_local[w].value.num_workers_waiting < MaxWaiting
            /\ Swap(w, [rdzv_local[w].value EXCEPT !.num_workers_waiting = @ + 1],
                    FALSE, "free_get", rdzv_local[w])
    /\ UNCHANGED restRdzv

\* wait_for_rendezvous_to_free, the read and the keep-alive check
\* (686-700, 743); a valid final rendezvous is waited on
wait_for_rendezvous_to_free(w) ==
    /\ rdzv_pc[w] = "free_get"
    /\ LET state == active_version.value IN
       IF \/ ~active_version.exists
          \/ state.status # "final"
          \/ state.version # rdzv_local[w].expected_version
       THEN Retry(w)
       ELSE /\ state.keep_alives \ keep_alive_keys # {}
            /\ Goto(w, "destroy", [rdzv_local[w] EXCEPT !.value = state])
    /\ UNCHANGED restRdzv

\* wait_for_rendezvous_to_free, the compare-and-delete (712-724)
destroy_rendezvous(w) ==
    /\ rdzv_pc[w] = "destroy"
    /\ IF CompareOk(w)
       THEN /\ active_version' = NoKey
            /\ rdzv_pc' = [rdzv_pc EXCEPT ![w] = "barrier"]
            /\ rdzv_local' = [rdzv_local EXCEPT ![w] = NoLocal]
            /\ UNCHANGED <<version_counter, keep_alive_keys, rdzv_result,
                           rdzv_calls, rdzv_returned>>
       ELSE Retry(w)
    /\ UNCHANGED restRdzv

\* A worker calls set_closed (818-824).
set_closed(w) ==
    /\ rdzv_pc[w] = "idle"
    /\ rdzv_calls < MaxRdzvCalls
    /\ rdzv_calls' = rdzv_calls + 1
    /\ rdzv_pc' = [rdzv_pc EXCEPT ![w] = "closed_get"]
    /\ rdzv_result' = [rdzv_result EXCEPT ![w] = None]
    /\ UNCHANGED <<active_version, version_counter, keep_alive_keys, rdzv_local,
                   rdzv_returned>>
    /\ UNCHANGED restRdzv

\* set_closed, the read and the early return (825-831)
set_closed_get(w) ==
    /\ rdzv_pc[w] = "closed_get"
    /\ LET state == active_version.value IN
       IF ~active_version.exists THEN Leave(w, "EtcdKeyNotFound")
       ELSE IF state.status = "closed" THEN Leave(w, "returned")
       ELSE Goto(w, "closed_cas", [rdzv_local[w] EXCEPT !.value = state])
    /\ UNCHANGED restRdzv

\* set_closed, the compare-and-swap (832-842)
set_closed_cas(w) ==
    /\ rdzv_pc[w] = "closed_cas"
    /\ IF ~active_version.exists THEN Leave(w, "EtcdKeyNotFound")
       ELSE IF ~CompareOk(w) THEN Goto(w, "closed_get", rdzv_local[w])
       ELSE /\ active_version' =
                   Key([rdzv_local[w].value EXCEPT !.status = "closed"], FALSE)
            /\ rdzv_pc' = [rdzv_pc EXCEPT ![w] = "idle"]
            /\ rdzv_local' = [rdzv_local EXCEPT ![w] = NoLocal]
            /\ rdzv_result' = [rdzv_result EXCEPT ![w] = "returned"]
            /\ UNCHANGED <<version_counter, keep_alive_keys, rdzv_calls, rdzv_returned>>
    /\ UNCHANGED restRdzv

\* etcd: /rdzv/active_version, written with a TTL, expires.
active_version_expires ==
    /\ active_version.exists /\ active_version.ttl
    /\ active_version' = NoKey
    /\ UNCHANGED <<version_counter, keep_alive_keys, rdzv_pc, rdzv_local,
                   rdzv_result, rdzv_calls, rdzv_returned>>
    /\ UNCHANGED restRdzv

\* etcd: the lease key of a rank is not renewed and expires.
keep_alive_expires(rank) ==
    /\ rank \in keep_alive_keys
    /\ keep_alive_keys' = keep_alive_keys \ {rank}
    /\ UNCHANGED <<active_version, version_counter, rdzv_pc, rdzv_local,
                   rdzv_result, rdzv_calls, rdzv_returned>>
    /\ UNCHANGED restRdzv

NextRdzv ==
    \/ \E w \in Workers : rendezvous_barrier(w)
    \/ \E w \in Workers : RendezvousTimeout(w)
    \/ \E w \in Workers : try_create_rendezvous(w)
    \/ \E w \in Workers : publish_rendezvous(w)
    \/ \E w \in Workers : init_phase(w)
    \/ \E w \in Workers : join_rendezvous_get(w)
    \/ \E w \in Workers : join_rendezvous_cas(w)
    \/ \E w \in Workers : handle_join_last_call_get(w)
    \/ \E w \in Workers : handle_join_last_call_freeze(w)
    \/ \E w \in Workers : handle_join_last_call_refresh(w)
    \/ \E w \in Workers : wait_for_peers(w)
    \/ \E w \in Workers : confirm_membership_get(w)
    \/ \E w \in Workers : confirm_membership_cas(w)
    \/ \E w \in Workers : wait_for_final(w)
    \/ \E w \in Workers : announce_self_waiting_get(w)
    \/ \E w \in Workers : announce_self_waiting_cas(w)
    \/ \E w \in Workers : wait_for_rendezvous_to_free(w)
    \/ \E w \in Workers : destroy_rendezvous(w)
    \/ \E w \in Workers : set_closed(w)
    \/ \E w \in Workers : set_closed_get(w)
    \/ \E w \in Workers : set_closed_cas(w)
    \/ active_version_expires
    \/ \E rank \in 0..(num_max_workers - 1) : keep_alive_expires(rank)

IdleRdzv ==
    /\ active_version = <<>> /\ version_counter = 0 /\ keep_alive_keys = {}
    /\ rdzv_pc = <<>> /\ rdzv_local = <<>> /\ rdzv_result = <<>>
    /\ rdzv_calls = 0 /\ rdzv_returned = {}

(***************************************************************************)
(* FSDP forward pass over a sequence of sharding units: the control        *)
(* thread issues all-gathers on the unshard stream and the units' forward  *)
(* computations on the compute stream; the device runs the two streams.    *)
(* (FullyShardedDataParallel.forward; the hooks it calls are in            *)
(* _runtime_utils.py)                                                      *)
(***************************************************************************)
MaxUnits == 3          \* sharding units 1..MaxUnits, in forward order
MaxIters == 2          \* forward passes 1..MaxIters
MaxQueued == 2         \* entries of the compute stream the device may lag behind

NoUnit == 0
NoCompute == <<0, 0>>

\* no unit is ever prefetched
forward_prefetch_target_none(it, k) == NoUnit

\* The unit whose all-gather the pre-forward of unit k issues ahead of time:
\* the next one in the forward order, which is the order recorded in the
\* first iteration and so is not known during it.
forward_prefetch_target(it, k) ==
    IF forward_prefetch /\ it > 1 /\ k < MaxUnits THEN k + 1 ELSE NoUnit

InitOverlap ==
    /\ forward_prefetch \in BOOLEAN
    /\ ov_iter = 1
    /\ ov_unit = 1
    /\ ov_phase = "pre_forward"
    /\ unshard_stream = <<>>
    /\ compute_stream = <<>>
    /\ ov_running = NoCompute
    /\ ov_log = [ag_issued |-> {}, ag_done |-> {}, compute_started |-> {},
                 compute_done |-> {}]

\* _pre_forward(self, self._handles, unshard_fn, ...) of forward: the unit's
\* all-gather is issued on the unshard stream unless it was prefetched, the
\* compute stream is made to wait for the unshard stream, and the next
\* unit's all-gather is prefetched.
_pre_forward_unshard ==
    /\ ov_phase = "pre_forward"
    /\ Len(compute_stream) < MaxQueued
    /\ LET key == <<ov_iter, ov_unit>>
           s1 == IF key \in ov_log.ag_issued THEN unshard_stream
                 ELSE Append(unshard_stream, key)
           target == forward_prefetch_target(ov_iter, ov_unit)
           tkey == <<ov_iter, target>>
           prefetch == target # NoUnit /\ tkey \notin ov_log.ag_issued
       IN  /\ unshard_stream' = IF prefetch THEN Append(s1, tkey) ELSE s1
           /\ compute_stream' = Append(compute_stream,
                                       [op |-> "wait_stream", on |-> SeqToSet(s1)])
           /\ ov_log' = [ov_log EXCEPT !.ag_issued =
                            @ \cup {key} \cup (IF prefetch THEN {tkey} ELSE {})]
    /\ ov_phase' = "module_forward"
    /\ UNCHANGED <<forward_prefetch, ov_iter, ov_unit, ov_running>>
    /\ UNCHANGED restOverlap

\* output = self._fsdp_wrapped_module(*args, **kwargs): the unit's forward
\* computation is put on the compute stream
_fsdp_wrapped_module ==
    /\ ov_phase = "module_forward"
    /\ Len(compute_stream) < MaxQueued
    /\ compute_stream' = Append(compute_stream,
                                [op |-> "compute", key |-> <<ov_iter, ov_unit>>])
    /\ ov_phase' = "post_forward"
    /\ UNCHANGED <<forward_prefetch, ov_iter, ov_unit, unshard_stream, ov_running,
                   ov_log>>
    /\ UNCHANGED restOverlap

\* _post_forward(self, self._handles, reshard_fn, ...): the unit is
\* resharded, and the control thread goes on to the next unit or the next
\* forward pass
_post_forward_next ==
    /\ ov_phase = "post_forward"
    /\ IF ov_unit < MaxUnits
       THEN /\ ov_unit' = ov_unit + 1 /\ ov_phase' = "pre_forward"
            /\ UNCHANGED ov_iter
       ELSE IF ov_iter < MaxIters
       THEN /\ ov_iter' = ov_iter + 1 /\ ov_unit' = 1 /\ ov_phase' = "pre_forward"
       ELSE /\ ov_phase' = "done" /\ UNCHANGED <<ov_iter, ov_unit>>
    /\ UNCHANGED <<forward_prefetch, unshard_stream, compute_stream, ov_running,
                   ov_log>>
    /\ UNCHANGED restOverlap

\* The device completes the oldest all-gather of the unshard stream
all_gather_completes ==
    /\ unshard_stream # <<>>
    /\ ov_log' = [ov_log EXCEPT !.ag_done = @ \cup {Head(unshard_stream)}]
    /\ unshard_stream' = Tail(unshard_stream)
    /\ UNCHANGED <<forward_prefetch, ov_iter, ov_unit, ov_phase, compute_stream,
                   ov_running>>
    /\ UNCHANGED restOverlap

\* current_stream().wait_stream(unshard_stream) is over once the all-gathers
\* that were on the unshard stream at the call have completed
wait_stream_passes ==
    /\ compute_stream # <<>> /\ ov_running = NoCompute
    /\ Head(compute_stream).op = "wait_stream"
    /\ Head(compute_stream).on \subseteq ov_log.ag_done
    /\ compute_stream' = Tail(compute_stream)
    /\ UNCHANGED <<forward_prefetch, ov_iter, ov_unit, ov_phase, unshard_stream,
                   ov_running, ov_log>>
    /\ UNCHANGED restOverlap

\* The device starts the next forward computation of the compute stream
compute_starts ==
    /\ compute_stream # <<>> /\ ov_running = NoCompute
    /\ Head(compute_stream).op = "compute"
    /\ ov_running' = Head(compute_stream).key
    /\ ov_log' = [ov_log EXCEPT !.compute_started = @ \cup {Head(compute_stream).key}]
    /\ compute_stream' = Tail(compute_stream)
    /\ UNCHANGED <<forward_prefetch, ov_iter, ov_unit, ov_phase, unshard_stream>>
    /\ UNCHANGED restOverlap

\* and completes it
compute_completes ==
    /\ ov_running # NoCompute
    /\ ov_log' = [ov_log EXCEPT !.compute_done = @ \cup {ov_running}]
    /\ ov_running' = NoCompute
    /\ UNCHANGED <<forward_prefetch, ov_iter, ov_unit, ov_phase, unshard_stream,
                   compute_stream>>
    /\ UNCHANGED restOverlap

NextOverlap ==
    \/ _pre_forward_unshard
    \/ _fsdp_wrapped_module
    \/ _post_forward_next
    \/ all_gather_completes
    \/ wait_stream_passes
    \/ compute_starts
    \/ compute_completes

IdleOverlap ==
    /\ forward_prefetch = FALSE /\ ov_iter = 0 /\ ov_unit = 0 /\ ov_phase = <<>>
    /\ unshard_stream = <<>> /\ compute_stream = <<>> /\ ov_running = <<>>
    /\ ov_log = <<>>

(***************************************************************************)
(* FSDP: set_state_dict_type and the state_dict_type context manager       *)
(* (fully_sharded_data_parallel.py 577-702)                                *)
(***************************************************************************)
StateDictTypes == {"FULL_STATE_DICT", "LOCAL_STATE_DICT", "SHARDED_STATE_DICT"}

\* _state_dict_type_to_config (616-620)
_state_dict_type_to_config ==
    [t \in StateDictTypes |->
        CASE t = "FULL_STATE_DICT" -> "FullStateDictConfig"
          [] t = "LOCAL_STATE_DICT" -> "LocalStateDictConfig"
          [] t = "SHARDED_STATE_DICT" -> "ShardedStateDictConfig"]

\* A StateDictConfig object: its class and its offload_to_cpu field
StateDictConfig(cls, offload_to_cpu) ==
    [cls |-> cls, offload_to_cpu |-> offload_to_cpu]

\* The state_dict_config arguments: None or an object of one of the classes
StateDictConfigArgs ==
    {NoneOpt} \cup {Some(StateDictConfig(_state_dict_type_to_config[t], o)) :
                       t \in StateDictTypes, o \in BOOLEAN}

\* _state_dict_type_to_config[state_dict_type](): the default config
DefaultStateDictConfig(state_dict_type) ==
    StateDictConfig(_state_dict_type_to_config[state_dict_type], FALSE)

\* isinstance(config, cls) for the three sibling classes of the table
IsInstance(config, cls) == config.cls = cls

\* _init_state_dict_state: every module starts with FULL_STATE_DICT and a
\* FullStateDictConfig() of its own
InitStateDict ==
    /\ _state_dict_type = [m \in Modules |-> "FULL_STATE_DICT"]
    /\ _state_dict_config = [m \in Modules |-> DefaultStateDictConfig("FULL_STATE_DICT")]
    /\ sd_ctx = NoneOpt
    /\ sd_last = [op |-> None]

SetRaises(st) == [exc |-> "RuntimeError", st |-> st, ret |-> NoneOpt]

RECURSIVE set_state_dict_type_loop(_, _, _, _, _, _)
\* the loop of set_state_dict_type over fsdp_modules(module) (627-650): st
\* holds the modules' attributes, prev_* the values taken at the first module
set_state_dict_type_loop(mods, state_dict_type, state_dict_config, prev_state_dict_type, prev_state_dict_config, st) ==
    IF mods = <<>>
    THEN [exc |-> None, st |-> st,
          ret |-> Some(<<prev_state_dict_type, prev_state_dict_config>>)]
    ELSE LET submodule == Head(mods)
             prev_type == IF prev_state_dict_type = NoneOpt
                          THEN Some(st.type[submodule]) ELSE prev_state_dict_type
             prev_config == IF prev_state_dict_config = NoneOpt
                            THEN Some(st.config[submodule]) ELSE prev_state_dict_config
         IN  IF prev_type.val # st.type[submodule] THEN SetRaises(st)
             ELSE IF ~IsInstance(st.config[submodule], prev_config.val.cls)
             THEN SetRaises(st)
             ELSE IF _state_dict_type_to_config[state_dict_type] # state_dict_config.cls
             THEN SetRaises(st)
             ELSE set_state_dict_type_loop(
                      Tail(mods), state_dict_type, state_dict_config,
                      prev_type, prev_config,
                      [type |-> [st.type EXCEPT ![submodule] = state_dict_type],
                       config |-> [st.config EXCEPT ![submodule] = state_dict_config]])

\* the config set_state_dict_type uses: the default one if none is given
\* (625-626)
ConfigOrDefault(state_dict_type, state_dict_config) ==
    IF state_dict_config = NoneOpt
    THEN DefaultStateDictConfig(state_dict_type) ELSE state_dict_config.val

\* FullyShardedDataParallel.set_state_dict_type (577-652) on attributes st
set_state_dict_type(module, state_dict_type, state_dict_config, st) ==
    set_state_dict_type_loop(fsdp_modules(module), state_dict_type,
                             ConfigOrDefault(state_dict_type, state_dict_config),
                             NoneOpt, NoneOpt, st)

StateDictAttrs == [type |-> _state_dict_type, config |-> _state_dict_config]

\* what a step leaves in sd_last: the call, its outcome and the attributes
\* before it
SDLast(op, module, state_dict_type, state_dict_config, exc, ret, before) ==
    [op |-> op, module |-> module, state_dict_type |-> state_dict_type,
     state_dict_config |-> state_dict_config, exc |-> exc, ret |-> ret,
     before |-> before]

\* a call of FSDP.set_state_dict_type(module, state_dict_type, state_dict_config)
set_state_dict_type_call(module, state_dict_type, state_dict_config) ==
    /\ sd_ctx = NoneOpt
    /\ LET r == set_state_dict_type(module, state_dict_type, state_dict_config,
                                    StateDictAttrs)
       IN  /\ _state_dict_type' = r.st.type
           /\ _state_dict_config' = r.st.config
           /\ sd_last' = SDLast("set_state_dict_type", module, state_dict_type,
                                ConfigOrDefault(state_dict_type, state_dict_config),
                                r.exc, r.ret, StateDictAttrs)
    /\ UNCHANGED sd_ctx
    /\ UNCHANGED restStateDict

\* with FSDP.state_dict_type(module, ...): up to the yield (683-692); when
\* set_state_dict_type raises, prev_* are still None, nothing is restored
\* (698-702) and the exception leaves the with statement (693-694)
state_dict_type_enter(module, state_dict_type, state_dict_config) ==
    /\ sd_ctx = NoneOpt
    /\ LET r == set_state_dict_type(module, state_dict_type, state_dict_config,
                                    StateDictAttrs)
       IN  /\ _state_dict_type' = r.st.type
           /\ _state_dict_config' = r.st.config
           /\ sd_last' = SDLast("state_dict_type.__enter__", module, state_dict_type,
                                ConfigOrDefault(state_dict_type, state_dict_config),
                                r.exc, r.ret, StateDictAttrs)
           /\ sd_ctx' = IF r.exc # None THEN NoneOpt
                        ELSE Some([module |-> module,
                                   prev_state_dict_type |-> r.ret.val[1].val,
                                   prev_state_dict_config |-> r.ret.val[2].val,
                                   before |-> StateDictAttrs])
    /\ UNCHANGED restStateDict

\* the with body ends, by return (exc = None) or by an exception: the
\* finally clause sets the previous type and config (698-702)
state_dict_type_exit(exc) ==
    /\ sd_ctx # NoneOpt
    /\ LET c == sd_ctx.val
           r == set_state_dict_type(c.module, c.prev_state_dict_type,
                                    Some(c.prev_state_dict_config), StateDictAttrs)
       IN  /\ _state_dict_type' = r.st.type
           /\ _state_dict_config' = r.st.config
           /\ sd_last' = SDLast("state_dict_type.__exit__", c.module,
                                c.prev_state_dict_type, c.prev_state_dict_config,
                                IF r.exc # None THEN r.exc ELSE exc, r.ret, c.before)
    /\ sd_ctx' = NoneOpt
    /\ UNCHANGED restStateDict

NextStateDict ==
    \/ \E module \in Modules, t \in StateDictTypes, c \in StateDictConfigArgs :
          set_state_dict_type_call(module, t, c)
    \/ \E module \in Modules, t \in StateDictTypes, c \in StateDictConfigArgs :
          state_dict_type_enter(module, t, c)
    \/ \E exc \in {None, "Exception"} : state_dict_type_exit(exc)

IdleStateDict ==
    /\ _state_dict_type = <<>>
    /\ _state_dict_config = <<>>
    /\ sd_ctx = <<>>
    /\ sd_last = <<>>
(***************************************************************************)
(* Specifications                                                          *)
(***************************************************************************)
\* The sharding propagator
InitSpecProp == InitProp /\ IdlePlace /\ IdleSplit /\ IdleFSDP /\ IdleFSDP2
    /\ IdleCall /\ IdleComposable /\ IdleStore /\ IdleRdzv /\ IdleOverlap /\ IdleStateDict
SpecProp == InitSpecProp /\ [][NextProp]_vars

\* Local shape and offset on 1-D and 2-D meshes
InitSpecPlace ==
    InitPlacement(GlobalShapes, Meshes2D, AllPlacements)
    /\ IdleProp /\ IdleSplit /\ IdleFSDP /\ IdleFSDP2 /\ IdleCall
    /\ IdleComposable /\ IdleStore /\ IdleRdzv /\ IdleOverlap /\ IdleStateDict
SpecPlace == InitSpecPlace /\ [][NextPlace]_vars

\* Local shape alone on 1-D and 2-D meshes
InitSpecLocalShape ==
    InitPlacement(GlobalShapes, Meshes2D, AllPlacements)
    /\ IdleProp /\ IdleSplit /\ IdleFSDP /\ IdleFSDP2 /\ IdleCall
    /\ IdleComposable /\ IdleStore /\ IdleRdzv /\ IdleOverlap /\ IdleStateDict
SpecLocalShape == InitSpecLocalShape /\ [][NextLocalShape]_vars

\* Local shape and offset under longer placement lists with strided shards
InitSpecStrided ==
    InitPlacement(StridedShapes, MeshesND, AllPlacements)
    /\ IdleProp /\ IdleSplit /\ IdleFSDP /\ IdleFSDP2 /\ IdleCall
    /\ IdleComposable /\ IdleStore /\ IdleRdzv /\ IdleOverlap /\ IdleStateDict
SpecStrided == InitSpecStrided /\ [][NextPlace]_vars

\* Shard and replicate back over a 2-D mesh
InitSpecSplit == InitSplit /\ IdleProp /\ IdlePlace /\ IdleFSDP /\ IdleFSDP2
    /\ IdleCall /\ IdleComposable /\ IdleStore /\ IdleRdzv /\ IdleOverlap /\ IdleStateDict
SpecSplit == InitSpecSplit /\ [][NextSplit]_vars

\* The FSDP wrappers of one rank under any use of their API
InitSpecFSDP ==
    /\ InitFSDP({"FULL_SHARD"}, {TRUE}, {{}})
    /\ IdleProp /\ IdlePlace /\ IdleSplit /\ IdleFSDP2 /\ IdleCall
    /\ IdleComposable /\ IdleStore /\ IdleRdzv /\ IdleOverlap /\ IdleStateDict
SpecFSDP == InitSpecFSDP /\ [][NextFSDP]_vars

\* The FSDP wrappers of one rank under a training loop, with any units frozen
InitSpecTrain ==
    /\ InitFSDP(ShardingStrategy, BOOLEAN, SUBSET Modules)
    /\ IdleProp /\ IdlePlace /\ IdleSplit /\ IdleFSDP2 /\ IdleCall
    /\ IdleComposable /\ IdleStore /\ IdleRdzv /\ IdleOverlap /\ IdleStateDict
SpecTrain == InitSpecTrain /\ [][NextTrain]_vars

\* Modules managed by fully_shard: construction, forward, backward, reshard
InitSpecFullyShard == InitFullyShard /\ IdleProp /\ IdlePlace /\ IdleSplit
    /\ IdleFSDP /\ IdleCall /\ IdleComposable /\ IdleStore /\ IdleRdzv /\ IdleOverlap /\ IdleStateDict
SpecFullyShard == InitSpecFullyShard /\ [][NextFullyShard]_vars

\* The composable fully_shard applied to the modules of a tree
InitSpecComposable ==
    InitComposable /\ IdleProp /\ IdlePlace /\ IdleSplit /\ IdleFSDP
    /\ IdleFSDP2 /\ IdleCall /\ IdleStore /\ IdleRdzv /\ IdleOverlap /\ IdleStateDict
SpecComposable == InitSpecComposable /\ [][NextComposable]_vars

\* Concurrent EtcdStore.add calls on one key
InitSpecStore ==
    InitStore /\ IdleProp /\ IdlePlace /\ IdleSplit /\ IdleFSDP /\ IdleFSDP2
    /\ IdleCall /\ IdleComposable /\ IdleRdzv /\ IdleOverlap /\ IdleStateDict
SpecStore == InitSpecStore /\ [][NextStore]_vars

\* Workers of one run_id in rendezvous_barrier and set_closed, with key expiry
InitSpecRdzv ==
    InitRdzv /\ IdleProp /\ IdlePlace /\ IdleSplit /\ IdleFSDP /\ IdleFSDP2
    /\ IdleCall /\ IdleComposable /\ IdleStore /\ IdleOverlap /\ IdleStateDict
SpecRdzv == InitSpecRdzv /\ [][NextRdzv]_vars

\* _wrap_output_spec_tensor_meta and _select_strategy on any arguments
InitSpecCall ==
    InitCall /\ IdleProp /\ IdlePlace /\ IdleSplit /\ IdleFSDP /\ IdleFSDP2
    /\ IdleComposable /\ IdleStore /\ IdleRdzv /\ IdleOverlap /\ IdleStateDict
SpecCall == InitSpecCall /\ [][NextCall]_vars

\* Forward passes over a sequence of sharding units: the host and the device
InitSpecOverlap ==
    InitOverlap /\ IdleProp /\ IdlePlace /\ IdleSplit /\ IdleFSDP /\ IdleFSDP2
    /\ IdleCall /\ IdleComposable /\ IdleStore /\ IdleRdzv /\ IdleStateDict
SpecOverlap == InitSpecOverlap /\ [][NextOverlap]_vars

\* set_state_dict_type and state_dict_type on the modules of the wrapped tree
InitSpecStateDict ==
    InitStateDict /\ IdleProp /\ IdlePlace /\ IdleSplit /\ IdleFSDP /\ IdleFSDP2
    /\ IdleCall /\ IdleComposable /\ IdleStore /\ IdleRdzv /\ IdleOverlap
SpecStateDict == InitSpecStateDict /\ [][NextStateDict]_vars

(***************************************************************************)
(* Claims on the sharding propagator                                       *)
(***************************************************************************)
\* Two logged calls i < j with equal schemas, no symints, and no registration
\* between them (a fixed registry).
SamePair(i, j) ==
    /\ i < j
    /\ log[i].schema = log[j].schema
    /\ ~log[i].schema.has_symints
    /\ log[i].nreg = log[j].nreg
    /\ log[i].func.kind # "none"

\* C1 as amended: of two propagate calls with equal schemas without symints
\* under a fixed registry, when the first returns normally the second does not
\* invoke the strategy or rule function and yields the same output sharding;
\* a call that is not answered from the cache invokes the function once, or
\* twice on the rule path (the re-run with the first schema suggestion); when
\* the first call raises, the second invokes the function again; with
\* has_symints the function is invoked on every call.
C1_CacheHitDoesNotReinvoke ==
    /\ \A i, j \in 1..Len(log) :
          SamePair(i, j) =>
            /\ log[i].exc = None =>
                  /\ log[j].invoked = 0
                  /\ log[j].exc = None
                  /\ log[j].output_sharding = log[i].output_sharding
            /\ log[i].exc # None => log[j].invoked >= 1
            /\ ~log[i].hit => log[i].invoked \in {1, 2}
            /\ log[i].invoked = 2 => log[i].func.kind = "rule"
    /\ \A i \in 1..Len(log) :
          (log[i].schema.has_symints /\ log[i].func.kind # "none")
            => log[i].invoked >= 1

\* C1 witness: a cached rule-path result (the rule ran twice in the first
\* call) answers the second call of the same schema.
C1_Witness ==
    \E i, j \in 1..Len(log) :
        /\ SamePair(i, j)
        /\ log[i].exc = None
        /\ log[i].invoked = 2
        /\ log[j].hit

\* C1 as stated: the two calls invoke the function exactly once in total and
\* the second yields the first's output sharding; with has_symints the
\* function is invoked on every call.
C1_ExactlyOnceInTotal ==
    /\ \A i, j \in 1..Len(log) :
          (SamePair(i, j) /\ ~log[i].hit) =>
            /\ log[i].invoked + log[j].invoked = 1
            /\ log[j].exc = None
            /\ log[j].output_sharding = log[i].output_sharding
    /\ \A i \in 1..Len(log) :
          (log[i].schema.has_symints /\ log[i].func.kind # "none")
            => log[i].invoked >= 1

(***************************************************************************)
(* Claims on the placement model                                           *)
(***************************************************************************)
NoStrided == \A i \in 1..Len(placements) : ~is_strided_shard(placements[i])

\* The elements of the global tensor, as index tuples
Elements ==
    {e \in [1..TensorNdim -> 0..MaxDimSize] :
        \A d \in 1..TensorNdim : e[d] < global_shape[d]}

\* e lies in the index range [global_offset, global_offset + local_shape) of r
InRange(e, r) ==
    \A d \in 1..TensorNdim :
        r.global_offset[d] <= e[d] /\ e[d] < r.global_offset[d] + r.local_shape[d]

DifferOnShardingDim(c1, c2) ==
    \E i \in 1..Len(placements) : is_shard(placements[i]) /\ c1[i] # c2[i]

ShardAfterStridedPartEnded(pls) ==
    \E i, j, k \in 1..Len(pls) :
        /\ i < j /\ j < k
        /\ is_strided_shard(pls[i])
        /\ pls[j].kind = "Shard" /\ pls[k].kind = "Shard"
        /\ pls[i].dim = pls[j].dim /\ pls[j].dim = pls[k].dim

\* C7: the call raises NotImplementedError ("the strided part has ended"),
\* returning no shape or offset, exactly for the placement lists in which a
\* _StridedShard(d) is followed by a Shard(d) ending the strided part and then
\* by a further Shard(d); for every other list it returns a shape and offset.
C7_StridedPartEnded ==
    \A c \in DOMAIN local_out :
        IF ShardAfterStridedPartEnded(placements)
        THEN /\ local_out[c].exc = "NotImplementedError"
             /\ local_out[c].msg = NotImplementedMsg
             /\ local_out[c].val = NoneOpt
        ELSE /\ local_out[c].exc = None
             /\ local_out[c].val # NoneOpt

\* C7 witness: a rank has called with the rejected 4-D list of the test and
\* the call raised.
C7_Witness ==
    /\ placements = <<_StridedShard(0, tp_size), _StridedShard(1, tp_size),
                      Shard(0), Shard(0)>>
    /\ \E c \in DOMAIN local_out : local_out[c].exc = "NotImplementedError"

\* C6: after _to_replicate_tensor along a mesh dimension, every rank holds
\* the tensor it held before _split_tensor sharded it on that mesh dimension,
\* element for element in the original order (plain Shard and _StridedShard
\* of every split factor); when the shardings over the two mesh dimensions are
\* both undone, in reverse order, every rank holds x.
C6_RoundTrip ==
    /\ undone >= 1 => shard_x = logical[Len(applied) - undone + 1]
    /\ (undone >= 1 /\ undone = Len(applied)) =>
          \A c \in DOMAIN shard_x : shard_x[c] = x_full

\* C6 witness: x = arange(8) was strided-sharded with split factor 2 on mesh
\* dimension 0 (rank 0 held [0, 1, 4, 5]), sharded on mesh dimension 1, and
\* both shardings were undone.
C6_Witness ==
    /\ x_full = arange_view(1, 8)
    /\ split_mesh = <<2, 2>>
    /\ applied = <<_StridedShard(1, 2), Shard(1)>>
    /\ undone = 2
    /\ logical[2][<<0, 0>>].rows = << <<0, 1, 4, 5>> >>
    /\ logical[2][<<1, 0>>].rows = << <<2, 3, 6, 7>> >>
    /\ \A c \in DOMAIN shard_x : shard_x[c] = x_full


(***************************************************************************)
(* Claims on the FSDP runtime                                              *)
(***************************************************************************)
FiredIn(m, i) == m \in mb_log[i].fired

\* the reduce-scatters unit m issued during the i-th backward
RSOf(m, i) ==
    {k \in 1..Len(rs_log) : rs_log[k].m = m /\ rs_log[k].mb = mb_log[i].mb}

\* the microbatches whose gradient of unit m was computed and not yet
\* reduced when the i-th backward's hook of m has run
Accumulated(m, i) ==
    {mb_log[j].mb : j \in {j \in 1..i :
        /\ FiredIn(m, j)
        /\ \A l \in j..(i - 1) : ~(FiredIn(m, l) /\ mb_log[l].sync[m])}}

\* C2: over any sequence of microbatches, a unit issues no reduce-scatter in
\* a backward run with its gradient sync disabled, and exactly one in a
\* backward run with it enabled; that one reduces the sum of the unit's
\* unsharded gradients of all the microbatches since its last reduce-scatter,
\* those run under no_sync() included.
C2_GradientAccumulation ==
    \A m \in Modules : \A i \in 1..Len(mb_log) :
        IF FiredIn(m, i) /\ mb_log[i].sync[m]
        THEN \E k \in 1..Len(rs_log) :
                /\ RSOf(m, i) = {k}
                /\ rs_log[k].reduced = Accumulated(m, i)
        ELSE RSOf(m, i) = {}

\* Two microbatches, the first under no_sync(): the root unit's one
\* reduce-scatter reduces the gradients of both.
C2_Witness ==
    /\ Len(mb_log) = 2
    /\ ~mb_log[1].sync["seq"] /\ mb_log[2].sync["seq"]
    /\ FiredIn("seq", 1) /\ FiredIn("seq", 2)
    /\ \E k \in 1..Len(rs_log) :
          /\ rs_log[k].m = "seq"
          /\ rs_log[k].reduced = {mb_log[1].mb, mb_log[2].mb}

\* C3: whenever the root's _wait_for_post_backward returns normally, no unit
\* of a sharded strategy in its tree is left with flat_param pointing at the
\* unsharded buffer: the catch-all pass has resharded every unit that was
\* unsharded for the backward and whose post-backward hook did not fire, and
\* has left alone the units the hook had resharded.
C3_CatchAllReshard ==
    (last.op = "_wait_for_post_backward" /\ last.exc = None) =>
        /\ \A m \in SeqToSet(fsdp_modules(last.m)) :
              uses_sharded_strategy(m) => flat_param[m].data = "local_shard"
        /\ \A m \in last.pre_ran \ last.fired :
              uses_sharded_strategy(m) => m \in last.resharded
        /\ last.resharded \cap last.fired = {}

\* A backward in which one unit's hook fired and the other's did not
C3_Witness ==
    /\ last.op = "_wait_for_post_backward" /\ last.exc = None
    /\ last.fired = {"seq"}
    /\ last.resharded = {"lin0"}
    /\ sharding_strategy["lin0"] = "FULL_SHARD"

\* the _summon_full_params contexts of module m that are open
Contexts(m) ==
    Cardinality({p \in (1..Len(stack)) \X (1..Len(FSDPModules)) :
        /\ p[2] <= Len(stack[p[1]].entered)
        /\ stack[p[1]].entered[p[2]].m = m})

C8_OnlyOutermostIsRoot ==
    (\E m \in Modules : _is_root[m] # None) =>
        \A m \in Modules :
            _is_root[m] = IF m = Outermost THEN "True" ELSE "False"

\* the reduce-scatters of unit m that are issued and not completed
InFlight(m) ==
    Cardinality({i \in 1..Len(post_backward_stream) : post_backward_stream[i] = m})

InNoSync(m) ==
    \E i \in 1..Len(stack) :
        stack[i].op = "no_sync" /\ m \in SeqToSet(fsdp_modules(stack[i].m))

\* C25: inside a root's no_sync() context every FSDP module of the tree has
\* _sync_gradients False; when the context exits, by return or by
\* exception, every module has the value it had on entry; with nested
\* contexts the flags stay False until the outermost one exits and then
\* have their values from before the outermost entry (True, the value
\* every module has outside any context).
C25_NoSyncFlags ==
    \A m \in Modules : _sync_gradients[m] = ~InNoSync(m)

\* The body of an inner no_sync() has raised and the exception was caught
\* inside the outer context, which is still open: the flags are still False
C25_Witness ==
    /\ last.op = "no_sync" /\ last.exc = "Exception" /\ last.m = "seq"
    /\ Len(stack) = 1 /\ stack[1].op = "no_sync" /\ stack[1].m = "seq"
    /\ \A m \in Modules : ~_sync_gradients[m]
    /\ stack[1].old_flags = [m \in Modules |-> TRUE]

(***************************************************************************)
(* Claims on the overlap of all-gathers with the forward computation       *)
(***************************************************************************)
\* C26 as amended: in a forward pass after the first, with forward prefetch
\* enabled, the forward computation of unit k starts only after unit k's
\* all-gather has completed, and the all-gather of unit k+1 has been issued
\* before unit k's forward computation completes; the first holds in every
\* forward pass.
C26_PrefetchOverlapsAfterFirstPass ==
    /\ ov_log.compute_started \subseteq ov_log.ag_done
    /\ forward_prefetch =>
          \A key \in ov_log.compute_done :
              (key[1] > 1 /\ key[2] < MaxUnits) =>
                  <<key[1], key[2] + 1>> \in ov_log.ag_issued

\* In the second forward pass unit 1 computes while unit 2's all-gather is
\* in flight
C26_Witness ==
    /\ forward_prefetch
    /\ ov_running = <<2, 1>>
    /\ unshard_stream # <<>> /\ Head(unshard_stream) = <<2, 2>>

\* C26 as stated: in every forward pass with forward prefetch enabled, the
\* forward computation of unit k starts only after unit k's all-gather has
\* completed, and the all-gather of unit k+1 has been issued before unit
\* k's forward computation completes.
C26_PrefetchOverlapsEveryPass ==
    /\ ov_log.compute_started \subseteq ov_log.ag_done
    /\ forward_prefetch =>
          \A key \in ov_log.compute_done :
              key[2] < MaxUnits => <<key[1], key[2] + 1>> \in ov_log.ag_issued

(* Claims on what rendezvous_barrier returns and on the participants list *)
\* The returns of rendezvous_barrier that carry rdzv_version v
ReturnedWith(v) == {r \in rdzv_returned : r.rdzv_version = v}

ReturnedVersions == {r.rdzv_version : r \in rdzv_returned}

\* No worker can return with rdzv_version v any more: the key is gone or
\* holds another version
VersionOver(v) == ~active_version.exists \/ active_version.value.version # v

\* C27 (amended): under every interleaving of concurrent workers running
\* rendezvous_barrier, the workers whose call returns with the same
\* rdzv_version have received pairwise distinct ranks, each of them in
\* 0..world_size-1, they all receive the same world_size, and
\* num_min_workers <= world_size <= num_max_workers.
C27_DistinctRanksSameWorldSize ==
    \A r1 \in rdzv_returned :
       /\ r1.rank \in 0..(r1.world_size - 1)
       /\ num_min_workers <= r1.world_size
       /\ r1.world_size <= num_max_workers
       /\ \A r2 \in ReturnedWith(r1.rdzv_version) :
             /\ r2.world_size = r1.world_size
             /\ r2 # r1 => r2.rank # r1.rank /\ r2.worker # r1.worker

\* both workers returned with the same rdzv_version, one of them after a
\* compare-and-swap it lost
C27_Witness ==
    \E r1, r2 \in rdzv_returned :
       /\ r1.rdzv_version = r2.rdzv_version
       /\ r1.worker = 1 /\ r2.worker = 2
       /\ {r1.rank, r2.rank} = 0..1
       /\ r1.world_size = 2

\* C27 as stated: the ranks returned with one rdzv_version are together
\* exactly 0..world_size-1
C27_RanksCoverWorldSize ==
    \A v \in ReturnedVersions :
       VersionOver(v) =>
          \A r \in ReturnedWith(v) :
             {q.rank : q \in ReturnedWith(v)} = 0..(r.world_size - 1)

\* The participants list of the stored state is within num_max_workers, and
\* a joinable state has space left
ParticipantsWithinMax ==
    /\ active_version.exists =>
          /\ active_version.value.participants <= num_max_workers
          /\ active_version.value.status = "joinable" =>
                active_version.value.participants < num_max_workers
    /\ \A w \in Workers :
          /\ rdzv_result[w] # "AssertionError"
          /\ rdzv_local[w].value.participants <= num_max_workers

\* C28: in every reachable rendezvous state, under any interleaving of
\* concurrent join_rendezvous compare-and-swap loops, the participants list
\* has at most num_max_workers entries, a joinable state has strictly fewer
\* than num_max_workers participants (the assertion "joinable rendezvous
\* should always have space left" never fails), and the status changes to
\* "frozen" in the same write that adds the num_max_workers-th participant.
C28_ParticipantsBoundedFrozenWhenFull ==
    /\ []ParticipantsWithinMax
    /\ [][(/\ active_version'.exists
           /\ active_version'.value.participants = num_max_workers
           /\ ~(/\ active_version.exists
                /\ active_version.value.version = active_version'.value.version
                /\ active_version.value.participants = num_max_workers))
          => /\ active_version.exists
             /\ active_version.value.status = "joinable"
             /\ active_version.value.participants = num_max_workers - 1
             /\ active_version'.value.status = "frozen"]_vars

\* the second worker lost a compare-and-swap against the first, read the
\* state again and its join filled the rendezvous, which is frozen
C28_Witness ==
    /\ active_version.exists
    /\ active_version.value.status = "frozen"
    /\ active_version.value.participants = num_max_workers
    /\ \E w \in Workers :
          /\ rdzv_pc[w] = "peers_get"
          /\ rdzv_local[w].this_rank = num_max_workers - 1
          /\ rdzv_local[w].value = active_version.value
(* Claims on set_state_dict_type and state_dict_type *)
\* every FSDP module under module has the given type and config
AllSetTo(module, state_dict_type, state_dict_config) ==
    \A m \in SeqToSet(fsdp_modules(module)) :
       /\ _state_dict_type[m] = state_dict_type
       /\ _state_dict_config[m] = state_dict_config

\* every module has the type and config recorded in before
Unchanged(before) ==
    /\ _state_dict_type = before.type
    /\ _state_dict_config = before.config

\* C30: set_state_dict_type is all-or-nothing over the FSDP modules under
\* the target module: it either sets the new type and config on every one of
\* them and returns the previous type and config, or, when it raises
\* RuntimeError, leaves every module's _state_dict_type and
\* _state_dict_config unchanged; after the state_dict_type context manager
\* exits, normally or by exception, every module has the type and config it
\* had before entry.
C30_SetStateDictTypeAllOrNothing ==
    /\ sd_last.op \in {"set_state_dict_type", "state_dict_type.__enter__"} =>
          IF sd_last.exc = None
          THEN /\ AllSetTo(sd_last.module, sd_last.state_dict_type,
                           sd_last.state_dict_config)
               /\ sd_last.ret = Some(<<Some(sd_last.before.type[sd_last.module]),
                                       Some(sd_last.before.config[sd_last.module])>>)
          ELSE Unchanged(sd_last.before)
    /\ sd_last.op = "state_dict_type.__exit__" => Unchanged(sd_last.before)


(***************************************************************************)
(* Claims on fully_shard                                                   *)
(***************************************************************************)
\* C10: after construction every managed parameter is registered as a
\* DTensor; after a forward through the root the root's parameter is a plain
\* unsharded tensor for every reshard_after_forward, and a non-root unit's is
\* one exactly when reshard_after_forward is False; after the backward, and
\* after reshard() on every unit, every parameter is a DTensor again; and the
\* registered parameters' full values stay those of the reference model.
C10_ParamRegistration ==
    /\ \A m \in Units : param_value(m) = ref_model[m]
    /\ schedule = <<>> =>
          /\ event.last = "fully_shard" => \A m \in Units : is_dtensor(m)
          /\ event.last = "forward" =>
                \A m \in Units :
                    ~is_dtensor(m) <=>
                        (m = Root \/ fsdp2_reshard_after_forward = "False")
          /\ event.last = "backward" => \A m \in Units : is_dtensor(m)
          /\ (event.last = "reshard" /\ event.resharded = Units) =>
                \A m \in Units : is_dtensor(m)

\* A forward with reshard_after_forward=2 over unevenly sharded parameters:
\* the root's is unsharded, the nested units' are sharded on the smaller mesh
C10_Witness ==
    /\ schedule = <<>> /\ event.last = "forward"
    /\ param_groups = MultipleGroups
    /\ fsdp2_reshard_after_forward = "2"
    /\ \A m \in Units : ref_model[m].shape[1] = 3
    /\ fsdp_param["in_proj"].sharded_state = "SHARDED_POST_FORWARD"
    /\ fsdp_param[Root].sharded_state = "UNSHARDED"


(***************************************************************************)
(* Claims on the propagation paths and their errors                        *)
(***************************************************************************)
\* C11: a propagate call for an operator outside skip_prop_list that has
\* neither a strategy function nor a rule registered raises
\* NotImplementedError, calls no registered function and assigns no
\* output_sharding, on the first call and on every later call with the same
\* schema; the cache holds only results of calls that returned.
C11_UnregisteredOperatorRaises ==
    /\ \A i \in 1..Len(log) :
          (log[i].func.kind = "none" /\ log[i].schema.op \notin skip_prop_list) =>
              /\ log[i].exc = "NotImplementedError"
              /\ ~log[i].hit
              /\ log[i].invoked = 0
              /\ log[i].output_sharding = NoOutput
    /\ \A schema \in DOMAIN cache :
          \E i \in 1..Len(log) :
              log[i].schema = schema /\ log[i].exc = None /\ ~log[i].hit

\* Two calls with the same schema on an unregistered operator, both raising
C11_Witness ==
    /\ Len(log) = 2
    /\ log[1].schema = log[2].schema
    /\ ~log[1].schema.has_symints
    /\ log[1].func.kind = "none" /\ log[2].func.kind = "none"
    /\ log[1].exc = "NotImplementedError" /\ log[2].exc = "NotImplementedError"
    /\ log[1].schema \notin DOMAIN cache

\* C16: on the rule path, whenever the registered rule returns an
\* OutputSharding with neither an output_spec nor schema_suggestions, the
\* call raises, whether failed_reason is set or None, and never returns an
\* OutputSharding whose output_spec is None.
C16_RuleWithoutOutputRaises ==
    \A i \in 1..Len(log) :
        (/\ log[i].func.kind = "rule"
         /\ LET r == RuleFunc(log[i].func.id, log[i].schema) IN
               /\ r.exc = None
               /\ r.out.output_spec.kind = "none"
               /\ r.out.schema_suggestions.none) =>
            /\ log[i].exc = "RuntimeError"
            /\ log[i].output_sharding = NoOutput

\* the registered strategy functions that return a single OpStrategy
OpStrategyIds == {"follow", "cost"}

\* C18: for an operator returning a tuple of k tensors handled on the
\* OpStrategy path, the output spec is a k-tuple whose every entry has the
\* selected strategy's output placements and whose entry i carries the
\* traced tensor metadata of output i.
C18_TupleEntriesCarryOwnMeta ==
    \A i \in 1..Len(log) :
        (/\ log[i].func.kind = "strategy" /\ log[i].func.id \in OpStrategyIds
         /\ return_type_tuple_tensors(log[i].schema.op)
         /\ ~log[i].hit) =>
            LET spec == log[i].output_sharding.output_spec
                metas == _propagate_tensor_meta(log[i].schema).metas
                selected == _select_strategy(
                                StrategyFunc(log[i].func.id, log[i].schema)).val
            IN  /\ log[i].exc = None
                /\ spec.kind = "tuple"
                /\ Len(spec.refs) = NumReturns(log[i].schema.op)
                /\ \A k \in 1..Len(spec.refs) :
                      /\ spec.objs[spec.refs[k]].placements = selected.output_spec
                      /\ spec.objs[spec.refs[k]].tensor_meta = metas[k]

\* C19: on the OpStrategy path needs_redistribute is True exactly when some
\* argument's placements differ from the selected strategy's expected input
\* placements at that position (its output spec when it declares no input
\* specs); schema_suggestions is one schema of the expected input specs
\* exactly when needs_redistribute is True and None otherwise; an output
\* spec is returned in both cases.
C19_NeedsRedistribute ==
    \A i \in 1..Len(log) :
        (/\ log[i].func.kind = "strategy" /\ log[i].func.id \in OpStrategyIds
         /\ ~log[i].hit) =>
            LET args == log[i].schema.args
                selected == _select_strategy(
                                StrategyFunc(log[i].func.id, log[i].schema)).val
                expected == [idx \in 1..Len(args) |->
                               IF selected.input_specs = NoneOpt
                               THEN selected.output_spec
                               ELSE selected.input_specs.val[idx]]
                differs == \E idx \in 1..Len(args) : args[idx] # expected[idx]
                out == log[i].output_sharding
            IN  /\ log[i].exc = None
                /\ out.needs_redistribute = differs
                /\ out.schema_suggestions =
                       IF differs
                       THEN Some(<<[op |-> log[i].schema.op, args |-> expected]>>)
                       ELSE NoneOpt
                /\ out.output_spec.kind # "none"
                /\ \A k \in 1..Len(out.output_spec.refs) :
                      out.output_spec.objs[out.output_spec.refs[k]].placements
                          = selected.output_spec

\* both cases of C19 on a strategy that declares input specs, and the
\* no-input-specs case
C19_Witness ==
    /\ \E i \in 1..Len(log) :
          /\ log[i].func = [kind |-> "strategy", id |-> "cost"] /\ ~log[i].hit
          /\ log[i].output_sharding.needs_redistribute
          /\ ~log[i].output_sharding.schema_suggestions.none
    /\ \E i \in 1..Len(log) :
          /\ log[i].func = [kind |-> "strategy", id |-> "cost"] /\ ~log[i].hit
          /\ ~log[i].output_sharding.needs_redistribute
          /\ log[i].output_sharding.output_spec.kind # "none"

(* Claims on _wrap_output_spec_tensor_meta and _select_strategy *)
\* C17: _wrap_output_spec_tensor_meta raises ValueError whenever a tuple
\* output_spec and the traced metas differ in number, and whenever a single
\* DTensorSpec is paired with None or with a tuple of metas; on a count
\* mismatch it attaches no metadata and raises no other kind of error.
C17_CountMismatchRaisesValueError ==
    (fn_result.done /\ fn_call.fn = "_wrap_output_spec_tensor_meta") =>
        LET s == fn_call.output_spec
            t == fn_call.output_tensor_meta
        IN  /\ (s.kind = "tuple" /\ t.kind = "tuple" /\ Len(s.refs) # Len(t.metas)) =>
                   /\ fn_result.exc = "ValueError"
                   /\ fn_result.output_spec = s
            /\ (s.kind = "single" /\ t.kind # "single") =>
                   /\ fn_result.exc = "ValueError"
                   /\ fn_result.output_spec = s

\* C20: _select_strategy returns the only candidate of a one-candidate
\* OpStrategy without reading its cost; with several candidates it returns
\* one whose summed redistribute cost is minimal, and among those with the
\* minimal sum the first in the candidate list.
C20_SelectStrategy ==
    (fn_result.done /\ fn_call.fn = "_select_strategy") =>
        LET ss == fn_call.strategy.strategies
            total(i) == SumSeq(Chain(ss[i].redistribute_cost.val))
        IN  /\ Len(ss) = 1 => (fn_result.exc = None /\ fn_result.val = ss[1])
            /\ (Len(ss) > 1 /\ \A i \in 1..Len(ss) : ~ss[i].redistribute_cost.none) =>
                   /\ fn_result.exc = None
                   /\ \E k \in 1..Len(ss) :
                         /\ fn_result.val = ss[k]
                         /\ \A j \in 1..Len(ss) : total(k) <= total(j)
                         /\ \A j \in 1..(k - 1) : total(j) > total(k)

\* a tie for the minimal sum between two later candidates
C20_Witness ==
    /\ fn_result.done /\ fn_call.fn = "_select_strategy"
    /\ LET ss == fn_call.strategy.strategies
       IN  /\ Len(ss) = 3
           /\ \A i \in 1..3 : ~ss[i].redistribute_cost.none
           /\ SumSeq(Chain(ss[1].redistribute_cost.val)) = 2
           /\ SumSeq(Chain(ss[2].redistribute_cost.val)) = 1
           /\ SumSeq(Chain(ss[3].redistribute_cost.val)) = 1
           /\ fn_result.val = ss[2]

(* Claims on compute_local_shape *)
\* One mesh dimension applied to a shape, as C13 states it: a sharding
\* placement gives the coordinate c the rounded-up quotient if c is below
\* the remainder and the rounded-down quotient otherwise.
ShardStep(shape, p, n, c) ==
    IF p.kind \in {"Shard", "_StridedShard"}
    THEN LET s == shape[p.dim + 1]
             floor == s \div n
             ceil == floor + (IF s % n = 0 THEN 0 ELSE 1)
         IN  [shape EXCEPT ![p.dim + 1] = IF c < s % n THEN ceil ELSE floor]
    ELSE shape

\* C13: compute_local_shape processes the mesh dimensions in order; a
\* sharding placement on a mesh dimension of size n gives coordinate c
\* ceil(s/n) of the current size s if c < s mod n and floor(s/n) otherwise,
\* Replicate changes nothing; two ranks with equal coordinates on every
\* sharding mesh dimension get the same local shape.
C13_LocalShape ==
    /\ \A c \in DOMAIN local_out :
          local_out[c] =
              IF Len(mesh_shape) = 1
              THEN ShardStep(global_shape, placements[1], mesh_shape[1], c[1])
              ELSE ShardStep(ShardStep(global_shape, placements[1], mesh_shape[1], c[1]),
                             placements[2], mesh_shape[2], c[2])
    /\ \A c1, c2 \in DOMAIN local_out :
          (\A i \in 1..Len(placements) : is_shard(placements[i]) => c1[i] = c2[i])
              => local_out[c1] = local_out[c2]

\* two ranks apart on a replicated mesh dimension only, on an uneven shard
\* that gives the two coordinates of the sharding dimension different sizes
C13_Witness ==
    /\ Len(mesh_shape) = 2 /\ mesh_shape = <<2, 2>>
    /\ placements[1] = Shard(0) /\ placements[2] = Replicate
    /\ global_shape[1] % 2 = 1
    /\ DOMAIN local_out = AllCoords(mesh_shape)
    /\ local_out[<<0, 0>>] = local_out[<<0, 1>>]
    /\ local_out[<<0, 0>>] # local_out[<<1, 0>>]

RECURSIVE SumNums(_)
\* The sum of the num arguments of the calls in S
SumNums(S) ==
    IF S = {} THEN 0
    ELSE LET a == CHOOSE x \in S : TRUE IN add_num[a] + SumNums(S \ {a})

\* The integer a node holds, 0 standing for an absent key
NodeValue(node) == IF node.exists THEN Int_(_decode(node.value)) ELSE 0

AddReturned == {a \in Adders : add_returned[a].done}

\* C15: EtcdStore.add is atomic.  Under any interleaving of the reads and
\* compare-and-swap writes of concurrent add(key, n_i) calls no increment
\* is lost: the stored value is the value before the calls (0 for an absent
\* key) plus the n_i of the calls that have returned, so after all calls
\* the sum of all n_i has been added; each call returns the value its own
\* write stored.
C15_AddIsAtomic ==
    /\ NodeValue(store_node) = NodeValue(store_initial) + SumNums(AddReturned)
    /\ AddReturned # {} => store_node.exists
    /\ \A a \in AddReturned :
          /\ add_pc[a] = "returned"
          /\ add_returned[a].result = Int_(_decode(add_returned[a].written))
          \* its write added its num to a value the key held
          /\ \E S \in SUBSET (Adders \ {a}) :
                add_returned[a].result =
                    NodeValue(store_initial) + SumNums(S) + add_num[a]

\* two calls have returned and the third holds a value read before their
\* writes, so its compare-and-swap is about to fail
C15_Witness ==
    /\ AddReturned = {1, 3}
    /\ store_initial = Node(_encode(Str(MaxInitial)))
    /\ add_num[1] = 0 - 1 /\ add_num[2] = 2 /\ add_num[3] = 2
    /\ add_pc[2] = "test_and_set"
    /\ add_node[2] = store_initial.value
    /\ NodeValue(store_node) = MaxInitial + 1

(* Claims on the etcd rendezvous *)
RdzvClosed == active_version.exists /\ active_version.value.status = "closed"

\* The positions at which a worker holds a value read earlier and is about
\* to compare-and-swap or compare-and-delete against it
CasPositions == {"publish", "join_cas", "last_call_cas", "confirm_cas",
                 "announce_cas", "destroy", "closed_cas"}

\* C14: once set_closed has written "closed", the status stays "closed"
\* under every interleaving of the other workers' steps and of key expiry
\* (every compare-and-swap based on a state read before the close fails);
\* set_closed on a closed rendezvous changes nothing; every later
\* rendezvous_barrier attempt that reads the state raises
\* RendezvousClosedError and no worker joins.
C14_ClosedStaysClosed ==
    [][RdzvClosed =>
          /\ active_version' = active_version
          /\ \A w \in Workers :
                /\ (rdzv_pc[w] = "barrier" /\ rdzv_pc'[w] # "barrier") =>
                      \/ rdzv_pc'[w] = "init_get"
                      \/ rdzv_pc'[w] = "idle" /\ rdzv_result'[w] = "RendezvousTimeoutError"
                /\ (rdzv_pc[w] = "init_get" /\ rdzv_pc'[w] # "init_get") =>
                      rdzv_pc'[w] = "idle" /\ rdzv_result'[w] = "RendezvousClosedError"
                /\ (rdzv_pc[w] = "closed_get" /\ rdzv_pc'[w] # "closed_get") =>
                      rdzv_pc'[w] = "idle" /\ rdzv_result'[w] = "returned"
                /\ rdzv_pc'[w] \in CasPositions => rdzv_pc[w] = rdzv_pc'[w]
                /\ rdzv_result'[w] = "joined" => rdzv_result[w] = "joined"]_vars

\* the rendezvous was closed while worker 1 held a joinable state for its
\* last-call compare-and-swap, and worker 2's later rendezvous_barrier
\* found it closed
C14_Witness ==
    /\ RdzvClosed
    /\ rdzv_pc[1] = "last_call_cas"
    /\ rdzv_local[1].value.status = "joinable"
    /\ rdzv_result[2] = "RendezvousClosedError"

(***************************************************************************)
(* Claims on the rule path's second run and on the cache                   *)
(***************************************************************************)
\* the placements of an output spec's entries, whatever tensor_meta they carry
SpecPlacements(spec) == [k \in 1..Len(spec.refs) |-> spec.objs[spec.refs[k]].placements]

\* C21: on the rule path, when the rule's first result has no output_spec
\* but has schema_suggestions, a call that returns has invoked the rule
\* exactly twice, the second time with schema_suggestions[0], and returns
\* the second result's output_spec, the first result's schema_suggestions
\* and needs_redistribute True; when the first result has an output_spec
\* the rule is invoked exactly once and needs_redistribute is as the rule
\* set it.
C21_RuleRerunWithFirstSuggestion ==
    \A i \in 1..Len(log) :
        (log[i].func.kind = "rule" /\ ~log[i].hit /\ log[i].exc = None) =>
            LET first == RuleFunc(log[i].func.id, log[i].schema).out
                out == log[i].output_sharding
            IN  /\ (first.output_spec.kind = "none" /\ ~first.schema_suggestions.none) =>
                      LET second == RuleFunc(log[i].func.id,
                                             first.schema_suggestions.val[1]).out
                      IN  /\ log[i].invoked = 2
                          /\ out.output_spec.kind = second.output_spec.kind
                          /\ SpecPlacements(out.output_spec)
                               = SpecPlacements(second.output_spec)
                          /\ out.schema_suggestions = first.schema_suggestions
                          /\ out.needs_redistribute
                /\ first.output_spec.kind # "none" =>
                      /\ log[i].invoked = 1
                      /\ out.needs_redistribute = first.needs_redistribute
                      /\ SpecPlacements(out.output_spec)
                           = SpecPlacements(first.output_spec)

\* A call whose rule was run again with the first of two different
\* suggestions, after a call whose rule gave an output spec with
\* needs_redistribute already set
C21_Witness ==
    /\ Len(log) = 2
    /\ log[1].func = [kind |-> "rule", id |-> "flagged"]
    /\ log[1].exc = None /\ log[1].invoked = 1
    /\ log[1].output_sharding.needs_redistribute
    /\ log[2].func = [kind |-> "rule", id |-> "suggest"]
    /\ log[2].exc = None /\ ~log[2].hit /\ log[2].invoked = 2
    /\ Len(log[2].output_sharding.schema_suggestions.val) = 2
    /\ log[2].output_sharding.schema_suggestions.val[1]
         # log[2].output_sharding.schema_suggestions.val[2]
    /\ SpecPlacements(log[2].output_sharding.output_spec) = <<"S0">>
    /\ log[2].output_sharding.needs_redistribute

\* C29: registering a strategy function or rule does not invalidate the
\* cache: once a propagate call with a schema without symbolic integers has
\* returned, a later call with an equal schema made after a different
\* function was registered for the operator is answered from the cache with
\* the same output sharding and invokes no registered function.
C29_RegistrationKeepsCache ==
    \A i, j \in 1..Len(log) :
        (/\ i < j
         /\ log[i].schema = log[j].schema
         /\ ~log[i].schema.has_symints
         /\ log[i].exc = None
         /\ log[j].func # log[i].func) =>
            /\ log[j].hit
            /\ log[j].invoked = 0
            /\ log[j].exc = None
            /\ log[j].output_sharding = log[i].output_sharding

\* A result computed by one rule answers a call made after another rule,
\* which would have raised, was registered for the same operator
C29_Witness ==
    /\ Len(log) = 2
    /\ log[1].schema = log[2].schema
    /\ log[1].func = [kind |-> "rule", id |-> "suggest"]
    /\ ~log[1].hit /\ log[1].exc = None
    /\ op_to_rules[log[2].schema.op] = "raise_other"
    /\ log[2].func = [kind |-> "rule", id |-> "raise_other"]
    /\ log[2].hit
    /\ log[2].output_sharding = log[1].output_sharding

(***************************************************************************)
(* Claims on the final callback of the backward pass                       *)
(***************************************************************************)
\* C22: whenever the root's _wait_for_post_backward returns normally, every
\* FSDP module of the tree has training_state IDLE, its handle has
\* HandleTrainingState.IDLE, its _ran_pre_backward_hook and
\* _handles_prefetched are empty and the root's
\* _post_backward_callback_queued is False, whether a module's
\* post-backward hook fired or not and whether gradients are synchronised
\* or not.
C22_AllIdleAfterFinalCallback ==
    (last.op = "_wait_for_post_backward" /\ last.exc = None) =>
        /\ \A m \in SeqToSet(fsdp_modules(last.m)) :
              /\ training_state[m] = "IDLE"
              /\ handle_training_state[m] = "IDLE"
              /\ ~_ran_pre_backward_hook[m]
              /\ _handles_prefetched[m] = {}
        /\ ~_post_backward_callback_queued[last.m]

\* The callback has returned under no_sync() after a backward pass in which
\* the root's post-backward hook fired and the inner unit's did not
C22_Witness ==
    /\ last.op = "_wait_for_post_backward" /\ last.exc = None
    /\ last.m = "seq"
    /\ last.pre_ran = {"seq", "lin0"}
    /\ last.fired = {"seq"}
    /\ ~_sync_gradients["seq"]
    /\ training_state = [m \in Modules |-> "IDLE"]

\* C23: when resharding raises inside the catch-all reshard for a module,
\* the failure is reported through p_assert (naming the module and the
\* exception text) without the report raising, and the same exception then
\* leaves _wait_for_post_backward: it is neither swallowed nor replaced.
C23_ReshardFailureReportedAndReraised ==
    (last.op = "_wait_for_post_backward" /\ last.exc # None) =>
        /\ last.printed = <<[module |-> last.failed, text |-> last.raised]>>
        /\ last.exc = last.raised
        /\ bw = Crashed

\* _reshard raised RuntimeError for the inner unit
C23_Witness ==
    /\ last.op = "_wait_for_post_backward"
    /\ last.exc = "RuntimeError"
    /\ last.failed = "lin0"
    /\ last.raised = "RuntimeError"
    /\ last.printed = <<[module |-> "lin0", text |-> "RuntimeError"]>>
    /\ bw = Crashed

====
